---- MODULE Spec2Model ----
(***************************************************************************)
(* A model of mugit (saiton03/mugit): the staging index and its binary     *)
(* format (index.rs), the add pipeline (add.rs), the commit pipeline       *)
(* (commit.rs), HEAD resolution (head.rs) and init (init.rs).              *)
(*                                                                         *)
(* Bytes are naturals 0..255, byte strings are sequences of bytes, and a   *)
(* path is the byte string of its text ('/' is 47).  TLC integers are 32   *)
(* bit signed, so u32 values are drawn below 2^31.                         *)
(***************************************************************************)
EXTENDS Integers, Sequences, FiniteSets, TLC

VARIABLES
    \* ---- index.rs: an Index value in memory and its serialization ----
    idx,        \* the Index being built / mutated (Index::new, Index::from, add_entry, delete_entry)
    ibytes,     \* the bytes last produced by Index::to_bytes
    isnap,      \* the Index that ibytes was produced from
    iparsed,    \* the last result of Index::from: [kind |-> "none" | "panic" | "some", ...]
    iinput,     \* the bytes last handed to Index::from
    \* ---- the repository on disk ----
    git_dir,    \* .git/ and its directories exist (init.rs)
    head_file,  \* .git/HEAD
    branch_tip, \* .git/refs/heads/master
    objects,    \* .git/objects: object hash -> "empty" (created, content not yet written) | "full"
    index_file, \* .git/index
    files,      \* the working tree: path -> [content, mtime, mtime_nano, mode] of each regular file
                \* and of each symbolic link (its own lstat values)
    clock,      \* the wall clock, in seconds
    \* ---- the running invocation ----
    pc,         \* its position: "idle" between invocations
    mem,        \* its local values (new_index, blob_list, tree_list, head, commit object, message)
    result,     \* what the last finished invocation returned
    wlog,       \* the file writes of the current (or last) invocation, in order
    tip_before, \* branch_tip when the current (or last) invocation started
    index_before, \* index_file when the current (or last) invocation started
    faults,     \* I/O failures injected so far
    ops,        \* invocations started so far
    edits,      \* working tree changes made so far
    \* ---- object.rs, hash.rs, log.rs: values and the calls made on them ----
    calls       \* the drawn input followed by each call made on it and what it returned

ivars == <<idx, ibytes, isnap, iparsed, iinput>>
ovars == <<calls>>
disk == <<git_dir, head_file, branch_tip, objects, index_file>>
rvars == <<git_dir, head_file, branch_tip, objects, index_file, files, clock,
           pc, mem, result, wlog, tip_before, index_before, faults, ops, edits>>
vars == <<idx, ibytes, isnap, iparsed, iinput,
          git_dir, head_file, branch_tip, objects, index_file, files, clock,
          pc, mem, result, wlog, tip_before, index_before, faults, ops, edits, calls>>

(***************************************************************************)
(* Bounds                                                                  *)
(***************************************************************************)
MaxEntries == 2      \* most entries held by an Index of the byte-level specification
MaxClock == 1        \* the clock stops advancing here
MaxEdits == 2        \* working tree changes per run
MaxFaults == 1       \* injected I/O failures per run
MaxOps == 4          \* init, add and commit invocations per run
MaxCalls == 3        \* calls made on one drawn input of the object formats

(***************************************************************************)
(* Byte helpers (common.rs)                                                *)
(***************************************************************************)
Slash == 47          \* '/'

None == [kind |-> "none"]
Panic == [kind |-> "panic"]

RECURSIVE Pow256(_)
Pow256(n) == IF n = 0 THEN 1 ELSE 256 * Pow256(n - 1)

\* common.rs u32_to_bytes: big endian, each byte is (val >> 8*(3-i)) as u8
u32_to_bytes(val) == [i \in 1..4 |-> (val \div Pow256(4 - i)) % 256]

\* common.rs u16_to_bytes
u16_to_bytes(val) == [i \in 1..2 |-> (val \div Pow256(2 - i)) % 256]

\* common.rs bytes_to_u32: None unless exactly four bytes
bytes_to_u32(bytes) ==
    IF Len(bytes) # 4 THEN None
    ELSE [kind |-> "some",
          val |-> bytes[1] * Pow256(3) + bytes[2] * Pow256(2) + bytes[3] * 256 + bytes[4]]

\* common.rs bytes_to_u16
bytes_to_u16(bytes) ==
    IF Len(bytes) # 2 THEN None
    ELSE [kind |-> "some", val |-> bytes[1] * 256 + bytes[2]]

\* common.rs extract_until_null: the prefix before the first 0 byte, or everything
RECURSIVE extract_until_null(_)
extract_until_null(byte) ==
    IF byte = <<>> THEN <<>>
    ELSE IF Head(byte) = 0 THEN <<>>
    ELSE <<Head(byte)>> \o extract_until_null(Tail(byte))

\* vec![0u8; n]
Zeros(n) == [i \in 1..n |-> 0]

\* bytes[from..] with 0-based from (Rust slice), as a 1-based sequence
SliceFrom(bytes, from) == SubSeq(bytes, from + 1, Len(bytes))

\* bytes[from..to] with 0-based bounds (Rust slice)
Slice(bytes, from, to) == SubSeq(bytes, from + 1, to)

\* slice::starts_with
StartsWith(bytes, prefix) ==
    /\ Len(bytes) >= Len(prefix)
    /\ SubSeq(bytes, 1, Len(prefix)) = prefix

Min(a, b) == IF a < b THEN a ELSE b

(***************************************************************************)
(* Path order.  Index.entries is a BTreeMap<PathBuf, IndexEntry>; PathBuf's*)
(* Ord compares the two paths component by component, each component as a  *)
(* byte string.                                                            *)
(***************************************************************************)
\* byte-lexicographic order on byte strings (str / [u8] Ord)
RECURSIVE BytesLess(_, _)
BytesLess(a, b) ==
    IF a = <<>> THEN b # <<>>
    ELSE IF b = <<>> THEN FALSE
    ELSE IF Head(a) # Head(b) THEN Head(a) < Head(b)
    ELSE BytesLess(Tail(a), Tail(b))

\* str::split("/") / Path::components on a normalised relative path
RECURSIVE SplitFrom(_, _)
SplitFrom(p, cur) ==
    IF p = <<>> THEN <<cur>>
    ELSE IF Head(p) = Slash THEN <<cur>> \o SplitFrom(Tail(p), <<>>)
    ELSE SplitFrom(Tail(p), Append(cur, Head(p)))

Components(p) == IF p = <<>> THEN <<>> ELSE SplitFrom(p, <<>>)

RECURSIVE ComponentsLess(_, _)
ComponentsLess(a, b) ==
    IF a = <<>> THEN b # <<>>
    ELSE IF b = <<>> THEN FALSE
    ELSE IF Head(a) # Head(b) THEN BytesLess(Head(a), Head(b))
    ELSE ComponentsLess(Tail(a), Tail(b))

\* <PathBuf as Ord>::cmp(p, q) == Less
PathBufLess(p, q) == ComponentsLess(Components(p), Components(q))

\* the keys of a BTreeMap<PathBuf, _> in iteration order
RECURSIVE SortedKeys(_)
SortedKeys(S) ==
    IF S = {} THEN <<>>
    ELSE LET m == CHOOSE x \in S : \A y \in S \ {x} : PathBufLess(x, y)
         IN  <<m>> \o SortedKeys(S \ {m})

(***************************************************************************)
(* IndexEntry (index.rs)                                                   *)
(***************************************************************************)
EntryFixedLen == 62      \* 10 u32 fields, 20 hash bytes, u16 flags
HashLen == 20
FlagsMask == 4095        \* 0xfff

\* IndexEntry::to_bytes
IndexEntry_to_bytes(e) ==
    LET ret == u32_to_bytes(e.ctime) \o u32_to_bytes(e.ctime_nano)
               \o u32_to_bytes(e.mtime) \o u32_to_bytes(e.mtime_nano)
               \o u32_to_bytes(e.dev) \o u32_to_bytes(e.inode)
               \o u32_to_bytes(e.mode) \o u32_to_bytes(e.uid)
               \o u32_to_bytes(e.gid) \o u32_to_bytes(e.size)
               \o e.hash \o u16_to_bytes(e.flags) \o e.file_name
        zero_pad_len == IF Len(ret) % 8 = 0 THEN 8 ELSE 8 - (Len(ret) % 8)
    IN  ret \o Zeros(zero_pad_len)

\* a mutant of IndexEntry_from: the entry length rounded up to a multiple of 8
\* without the extra NUL block when pos is already a multiple of 8
IndexEntry_from_roundup(bytes) ==
    IF Len(bytes) < EntryFixedLen THEN Panic
    ELSE
    LET u(k) == bytes_to_u32(Slice(bytes, 4 * k, 4 * k + 4)).val
        file_name == extract_until_null(SliceFrom(bytes, EntryFixedLen))
        pos == EntryFixedLen + Len(file_name)
    IN  [kind |-> "some",
         entry |-> [ctime |-> u(0), ctime_nano |-> u(1), mtime |-> u(2),
                    mtime_nano |-> u(3), dev |-> u(4), inode |-> u(5),
                    mode |-> u(6), uid |-> u(7), gid |-> u(8), size |-> u(9),
                    hash |-> Slice(bytes, 40, 60),
                    flags |-> bytes_to_u16(Slice(bytes, 60, 62)).val,
                    file_name |-> file_name],
         len |-> ((pos + 7) \div 8) * 8]

\* IndexEntry::from: Some((entry, consumed length)); a slice shorter than the
\* fixed part makes a range index panic
IndexEntry_from(bytes) ==
    IF Len(bytes) < EntryFixedLen THEN Panic
    ELSE
    LET u(k) == bytes_to_u32(Slice(bytes, 4 * k, 4 * k + 4)).val
        file_name == extract_until_null(SliceFrom(bytes, EntryFixedLen))
        pos == EntryFixedLen + Len(file_name)
    IN  [kind |-> "some",
         entry |-> [ctime |-> u(0), ctime_nano |-> u(1), mtime |-> u(2),
                    mtime_nano |-> u(3), dev |-> u(4), inode |-> u(5),
                    mode |-> u(6), uid |-> u(7), gid |-> u(8), size |-> u(9),
                    hash |-> Slice(bytes, 40, 60),
                    flags |-> bytes_to_u16(Slice(bytes, 60, 62)).val,
                    file_name |-> file_name],
         len |-> (pos \div 8 + 1) * 8]

\* IndexEntry::from_file: the entry built from the stat values of the file
IndexEntry_from_file(meta, file_name, hash) ==
    [ctime |-> meta.ctime, ctime_nano |-> meta.ctime_nano,
     mtime |-> meta.mtime, mtime_nano |-> meta.mtime_nano,
     dev |-> meta.dev, inode |-> meta.inode, mode |-> meta.mode,
     uid |-> meta.uid, gid |-> meta.gid, size |-> meta.size,
     hash |-> hash,
     flags |-> Min(Len(file_name), FlagsMask),
     file_name |-> file_name]

(***************************************************************************)
(* Index (index.rs).  entries is a function from the key set to entries.   *)
(***************************************************************************)
EmptyMap == [k \in {} |-> 0]

MapInsert(m, k, v) == [x \in DOMAIN m \cup {k} |-> IF x = k THEN v ELSE m[x]]

MapRemove(m, k) == [x \in DOMAIN m \ {k} |-> m[x]]

\* Index::new
Index_new == [version |-> 2, entry_num |-> 0, entries |-> EmptyMap]

\* Index::update_entry_num
update_entry_num(index) ==
    [index EXCEPT !.entry_num = Cardinality(DOMAIN index.entries)]

\* Index::add_entry, given the entry IndexEntry::from_file built
add_entry(index, ie) ==
    update_entry_num([index EXCEPT !.entries = MapInsert(@, ie.file_name, ie)])

\* Index::delete_entry
delete_entry(index, path_from_root) ==
    update_entry_num([index EXCEPT !.entries = MapRemove(@, path_from_root)])

\* for entry in &self.entries: the entries in the map's iteration order
EntriesInOrder(index) ==
    LET keys == SortedKeys(DOMAIN index.entries)
    IN  [i \in 1..Len(keys) |-> index.entries[keys[i]]]

RECURSIVE ConcatEntries(_)
ConcatEntries(es) ==
    IF es = <<>> THEN <<>>
    ELSE IndexEntry_to_bytes(Head(es)) \o ConcatEntries(Tail(es))

DIRC == <<68, 73, 82, 67>>

\* Index::to_bytes
Index_to_bytes(index) ==
    DIRC \o u32_to_bytes(index.version) \o u32_to_bytes(index.entry_num)
         \o ConcatEntries(EntriesInOrder(index))

\* the while loop of Index::from
RECURSIVE Index_from_loop(_, _, _, _)
Index_from_loop(bytes, offset, entry_num, entries) ==
    IF ~(offset < Len(bytes) /\ Cardinality(DOMAIN entries) < entry_num)
    THEN [kind |-> "some", entries |-> entries]
    ELSE LET out == IndexEntry_from(SliceFrom(bytes, offset))
         IN  IF out.kind # "some" THEN out
             ELSE Index_from_loop(bytes, offset + out.len, entry_num,
                                  MapInsert(entries, out.entry.file_name, out.entry))

\* Index::from
Index_from(bytes) ==
    IF ~StartsWith(bytes, DIRC) THEN None
    ELSE IF Len(bytes) < 12 THEN Panic
    ELSE LET version == bytes_to_u32(Slice(bytes, 4, 8)).val
             entry_num == bytes_to_u32(Slice(bytes, 8, 12)).val
             r == Index_from_loop(bytes, 12, entry_num, EmptyMap)
         IN  IF r.kind # "some" THEN r
             ELSE [kind |-> "some",
                   index |-> [version |-> version, entry_num |-> entry_num,
                              entries |-> r.entries]]


(***************************************************************************)
(* The byte-level specification of the index: an Index is created by       *)
(* Index::new or Index::from, mutated by add_entry and delete_entry,       *)
(* serialized by to_bytes and parsed back by Index::from.                  *)
(***************************************************************************)
PathAT == <<97, 46, 116>>      \* "a.t"
PathAB == <<97, 47, 98>>       \* "a/b"
PathCD == <<99, 100>>          \* "cd": 62 + 2 bytes, so eight bytes of padding

IndexPaths == {PathAT, PathAB, PathCD}

\* the stat values and digest of the unit test test_index_entry_from, and a second file
StatA == [meta |-> [ctime |-> 1633756723, ctime_nano |-> 251505709,
                    mtime |-> 1633756723, mtime_nano |-> 251505709,
                    dev |-> 16777220, inode |-> 95851314, mode |-> 33188,
                    uid |-> 501, gid |-> 20, size |-> 3],
          hash |-> <<151, 102, 71, 90, 65, 133, 161, 81, 220, 157,
                     86, 214, 20, 255, 185, 170, 234, 59, 253, 66>>]

StatB == [meta |-> [ctime |-> 1, ctime_nano |-> 0,
                    mtime |-> 258, mtime_nano |-> 2147483647,
                    dev |-> 0, inode |-> 65536, mode |-> 33261,
                    uid |-> 0, gid |-> 255, size |-> 16909060],
          hash |-> <<6, 74, 146, 215, 131, 249, 152, 81, 209, 81,
                     123, 81, 186, 11, 42, 237, 74, 29, 49, 40>>]

IndexStats == {StatA, StatB}

\* a write of the index file that stops early leaves a prefix of the bytes:
\* the number of bytes missing at the end
Cuts == {0, 1, 8, 64, 72}

Unset == [kind |-> "unset"]

InitIndex ==
    /\ idx = Index_new
    /\ ibytes = <<>>
    /\ isnap = Index_new
    /\ iparsed = Unset
    /\ iinput = <<>>

\* index.add_entry(path, hash) on a file with the given stat values
IAddEntry ==
    \E p \in IndexPaths, st \in IndexStats :
        /\ Cardinality(DOMAIN idx.entries \cup {p}) <= MaxEntries
        /\ idx' = add_entry(idx, IndexEntry_from_file(st.meta, p, st.hash))
        /\ UNCHANGED <<ibytes, isnap, iparsed, iinput, rvars, ovars>>

\* index.delete_entry(path)
IDeleteEntry ==
    \E p \in IndexPaths :
        /\ idx' = delete_entry(idx, p)
        /\ UNCHANGED <<ibytes, isnap, iparsed, iinput, rvars, ovars>>

\* index.to_bytes()
IToBytes ==
    /\ ibytes' = Index_to_bytes(idx)
    /\ isnap' = idx
    /\ iparsed' = Unset
    /\ iinput' = <<>>
    /\ UNCHANGED <<idx, rvars, ovars>>

\* Index::from(bytes) on the serialized bytes or a prefix of them; a parsed
\* Index becomes the current one
IFrom ==
    \E c \in Cuts :
        /\ ibytes # <<>>
        /\ c <= Len(ibytes)
        /\ iinput' = SubSeq(ibytes, 1, Len(ibytes) - c)
        /\ iparsed' = Index_from(iinput')
        /\ idx' = IF iparsed'.kind = "some" THEN iparsed'.index ELSE idx
        /\ UNCHANGED <<ibytes, isnap, rvars, ovars>>



(***************************************************************************)
(* The repository: hashes, HEAD, the object store, the working tree        *)
(***************************************************************************)
Absent == [kind |-> "absent"]
Some(v) == [kind |-> "some", val |-> v]

\* hash.rs calc_sha1_bytes.  SHA-1 is taken to be collision free: the digest
\* of an object is represented by the object it was computed from.
calc_sha1_bytes(payload) == [sha1 |-> payload]

\* Hash::string: the 40 hex characters of a digest
Hash_string(h) == [kind |-> "hex", hash |-> h]

\* Hash::from_string on the content of a ref file: None unless 40 hex characters
Hash_from_string(text) == IF text.kind = "hex" THEN Some(text.hash) ELSE None

\* Blob::new
Blob_new(data) ==
    LET payload == [obj_type |-> "blob", len |-> Len(data), data |-> data]
    IN  [payload |-> payload, hash |-> calc_sha1_bytes(payload)]

RefPrefix == <<114, 101, 102, 58, 32>>                                 \* "ref: "
RefsHeads == <<114, 101, 102, 115, 47, 104, 101, 97, 100, 115, 47>>    \* "refs/heads/"
DEFAULT_BRANCH_NAME == <<109, 97, 115, 116, 101, 114>>                 \* "master"
NewLine == 10

\* the content init writes to .git/HEAD: "ref: refs/heads/master\n"
InitialHead == RefPrefix \o RefsHeads \o DEFAULT_BRANCH_NAME \o <<NewLine>>

\* a detached HEAD as this program stores it: 20 raw digest bytes
RawHead == StatA.hash

\* head.rs is_head_dangling
is_head_dangling(ref_str) == ~StartsWith(ref_str, RefPrefix)

\* fs::read(.git/<branch_path>).ok(): the only ref file is refs/heads/master
ReadRef(branch_path) ==
    IF branch_path = RefsHeads \o DEFAULT_BRANCH_NAME /\ branch_tip.kind # "absent"
    THEN Some(branch_tip) ELSE None

\* Head::new: [kind |-> "ok", head |-> Head] or an error
Head_new ==
    IF head_file.kind = "absent"
    THEN [kind |-> "ok", head |-> [branch |-> None, hash |-> None, is_dangling |-> FALSE]]
    ELSE LET ref_str == head_file.data IN
    IF is_head_dangling(ref_str)
    THEN [kind |-> "ok",
          head |-> [branch |-> None,
                    hash |-> IF Len(ref_str) = HashLen THEN Some(ref_str) ELSE None,
                    is_dangling |-> TRUE]]
    ELSE LET stripped == SliceFrom(ref_str, Len(RefPrefix)) IN
    IF stripped = <<>> \/ stripped[Len(stripped)] # NewLine
    THEN [kind |-> "err", cause |-> "trim suffix failed"]
    ELSE LET branch_path == SubSeq(stripped, 1, Len(stripped) - 1) IN
    IF ~StartsWith(branch_path, RefsHeads)
    THEN [kind |-> "err", cause |-> "parse failed"]
    ELSE LET read == ReadRef(branch_path)
             hash == IF read.kind = "some" THEN Hash_from_string(read.val) ELSE None
         IN  [kind |-> "ok",
              head |-> [branch |-> Some(SliceFrom(branch_path, Len(RefsHeads))),
                        hash |-> hash, is_dangling |-> FALSE]]

\* Path::exists on an object file
ObjExists(h) == h \in DOMAIN objects

(***************************************************************************)
(* The working tree.  The directories exist throughout; regular files are  *)
(* created, rewritten and removed by the user between invocations.         *)
(***************************************************************************)
DirA == <<97>>                   \* the directory "a"
Root == <<>>                     \* the project root, as a path relative to itself
DotGit == <<46, 103, 105, 116>>  \* ".git"

WorkPaths == {PathAT, PathAB}
Dirs == {Root, DirA}
Contents == {1, 2}
ModeRegular == 33188             \* 0o100644
ModePrivate == 33152             \* 0o100600
Modes == {ModeRegular, ModePrivate}

\* Path::parent of a relative path
Parent(p) ==
    LET cs == Components(p)
        RECURSIVE Join(_)
        Join(xs) == IF xs = <<>> THEN <<>>
                    ELSE IF Len(xs) = 1 THEN xs[1]
                    ELSE xs[1] \o <<Slash>> \o Join(Tail(xs))
    IN  Join(SubSeq(cs, 1, Len(cs) - 1))

\* Path::starts_with: base is a component-wise prefix of p
Path_starts_with(p, base) ==
    LET pc_ == Components(p)
        bc == Components(base)
    IN  /\ Len(bc) <= Len(pc_)
        /\ SubSeq(pc_, 1, Len(bc)) = bc

\* the symbolic links a user makes in the directory a: a/l to ../a.t, a file
\* of the project outside a, and a/o to a regular file outside the project
PathAL == <<97, 47, 108>>
PathAO == <<97, 47, 111>>
Outside == <<47, 101>>
LinkPaths == {PathAL, PathAO}
LinkTarget(p) == IF p = PathAL THEN PathAT ELSE Outside
ModeLink == 40960 + 511          \* 0o120777
GitHead == DotGit \o <<Slash, 72, 69, 65, 68>>   \* ".git/HEAD"

IsLink(p) == p \in LinkPaths /\ p \in DOMAIN files

\* fs::canonicalize of an existing path, as a path from the project root (the
\* current directory): a symbolic link resolves to its target
canonicalize(p) == IF IsLink(p) THEN LinkTarget(p) ELSE p

\* get_path_from_project_root: strip_prefix fails outside the project
get_path_from_project_root(p) ==
    IF canonicalize(p) = Outside THEN None ELSE Some(canonicalize(p))

\* the stat values an IndexEntry keeps, for the file f at path p
StatOf(p, f) ==
    [ctime |-> f.mtime, ctime_nano |-> f.mtime_nano,
     mtime |-> f.mtime, mtime_nano |-> f.mtime_nano,
     dev |-> 1, inode |-> 100 + Len(p) + p[Len(p)], mode |-> f.mode,
     uid |-> 501, gid |-> 20, size |-> 1]

\* fs::metadata, which follows symbolic links
Metadata(p) ==
    IF p = GitHead
    THEN [StatOf(p, [mtime |-> 0, mtime_nano |-> 0, mode |-> ModeRegular])
             EXCEPT !.size = Len(head_file.data)]
    ELSE StatOf(canonicalize(p), files[canonicalize(p)])

\* Blob::from_file
Blob_from_file(p) ==
    IF p = GitHead THEN Blob_new(head_file.data)
    ELSE Blob_new(<<files[canonicalize(p)].content>>)

\* Path::is_dir, Path::is_file: both follow symbolic links, and the links
\* here lead to regular files
is_dir(path) == path \in Dirs \/ (path = DotGit /\ git_dir)
is_file(path) ==
    \/ path = GitHead /\ git_dir /\ head_file.kind = "data"
    \/ /\ path \in DOMAIN files
       /\ IsLink(path) => (LinkTarget(path) = Outside \/ LinkTarget(path) \in DOMAIN files)

\* fs::read_dir: the entries of a directory of the working tree
read_dir(path) ==
    {q \in (Dirs \cup DOMAIN files) \ {Root} : Parent(q) = path}
    \cup (IF path = Root /\ git_dir THEN {DotGit} ELSE {})

\* DirEntry::file_name
FileNameOf(p) == LET cs == Components(p) IN cs[Len(cs)]

(***************************************************************************)
(* The index file on disk, entry by entry: the header's entry count, the   *)
(* entries that were written whole, and whether a torn entry follows them. *)
(* Its bytes are those of the byte-level specification above.              *)
(***************************************************************************)
\* Index::to_bytes, as the content of .git/index
Index_to_file(index) ==
    [kind |-> "data", version |-> index.version, entry_num |-> index.entry_num,
     ents |-> EntriesInOrder(index), torn |-> FALSE]

\* the while loop of Index::from over the entries of the file
RECURSIVE Index_from_file_loop(_, _, _, _)
Index_from_file_loop(f, i, entry_num, entries) ==
    IF Cardinality(DOMAIN entries) >= entry_num THEN [kind |-> "some", entries |-> entries]
    ELSE IF i > Len(f.ents)
         THEN IF f.torn THEN Panic ELSE [kind |-> "some", entries |-> entries]
    ELSE Index_from_file_loop(f, i + 1, entry_num,
                              MapInsert(entries, f.ents[i].file_name, f.ents[i]))

\* Index::from_file: None when the file is missing or does not start with "DIRC"
Index_from_file ==
    IF index_file.kind \in {"absent", "empty"} THEN None
    ELSE LET r == Index_from_file_loop(index_file, 1, index_file.entry_num, EmptyMap)
         IN  IF r.kind # "some" THEN r
             ELSE [kind |-> "some",
                   index |-> [version |-> index_file.version,
                              entry_num |-> index_file.entry_num,
                              entries |-> r.entries]]

\* what a write_all of the index that fails partway leaves on disk: nothing,
\* or the header and some of the entries, the last of them possibly torn
TornIndexFiles(f) ==
    {[kind |-> "empty"]} \cup
    {[f EXCEPT !.ents = SubSeq(f.ents, 1, k), !.torn = t] :
        k \in 0..(Len(f.ents) - 1), t \in BOOLEAN}

(***************************************************************************)
(* The diff walker (add.rs DiffParser)                                     *)
(***************************************************************************)
\* IndexEntry::mod_time against the file's mtime: ((sec << 32) + nsec) compared
\* as the pair (sec, nsec)
TimeGreater(sec1, nsec1, sec2, nsec2) ==
    sec1 > sec2 \/ (sec1 = sec2 /\ nsec1 > nsec2)

\* a mutant of is_modified: only the seconds are compared
is_modified_seconds(path, index_entry) ==
    Metadata(path).mtime > index_entry.mtime

\* DiffParser::is_modified
is_modified(path, index_entry) ==
    TimeGreater(Metadata(path).mtime, Metadata(path).mtime_nano,
                index_entry.mtime, index_entry.mtime_nano)

\* Index::get_entry
get_entry(index, path) ==
    IF get_path_from_project_root(path).kind = "none" THEN None
    ELSE IF get_path_from_project_root(path).val \in DOMAIN index.entries
    THEN Some(index.entries[get_path_from_project_root(path).val])
    ELSE None

\* the scan of get_all_sub_nodes: nodes from start on, until one is not under root
RECURSIVE SubNodesFrom(_, _, _)
SubNodesFrom(root, all_nodes, i) ==
    IF i > Len(all_nodes) THEN {}
    ELSE IF ~Path_starts_with(all_nodes[i], root) THEN {}
    ELSE {all_nodes[i]} \cup SubNodesFrom(root, all_nodes, i + 1)

\* get_all_sub_nodes: binary_search gives the position of root in the sorted
\* keys, or the position where it would be inserted
get_all_sub_nodes(root, all_nodes) ==
    LET start == Cardinality({i \in 1..Len(all_nodes) : PathBufLess(all_nodes[i], root)})
    IN  SubNodesFrom(root, all_nodes, start + 1)

\* DiffParser::from
DiffParser_from(index, search_root) ==
    [index |-> index,
     new_nodes |-> {},
     mod_nodes |-> {},
     delete_nodes |-> IF index.kind = "some"
                      THEN get_all_sub_nodes(search_root, SortedKeys(DOMAIN index.val.entries))
                      ELSE {},
     search_root |-> search_root,
     err |-> "none"]

\* a mutant of update_node: the path found on disk is not taken out of delete_nodes
update_node_keep_deleted(parser, path) ==
    LET trimmed_path == get_path_from_project_root(path)
        found == get_entry(parser.index.val, path)
    IN  IF trimmed_path.kind = "none" THEN [parser EXCEPT !.err = "prefix not found"]
        ELSE IF found.kind = "some"
        THEN IF is_modified(path, found.val)
             THEN [parser EXCEPT !.mod_nodes = @ \cup {trimmed_path.val}]
             ELSE parser
        ELSE [parser EXCEPT !.new_nodes = @ \cup {trimmed_path.val}]

\* DiffParser::update_node
update_node(parser, path) ==
    LET trimmed_path == get_path_from_project_root(path)
        found == get_entry(parser.index.val, path)
        p1 == [parser EXCEPT !.delete_nodes = @ \ {trimmed_path.val}]
    IN  IF trimmed_path.kind = "none" THEN [parser EXCEPT !.err = "prefix not found"]
        ELSE IF found.kind = "some"
        THEN IF is_modified(path, found.val)
             THEN [p1 EXCEPT !.mod_nodes = @ \cup {trimmed_path.val}]
             ELSE p1
        ELSE [p1 EXCEPT !.new_nodes = @ \cup {trimmed_path.val}]

\* DiffParser::search_partial; SearchEntries is its loop over read_dir
RECURSIVE search_partial(_, _), SearchEntries(_, _)
search_partial(parser, path) ==
    IF is_dir(path) THEN SearchEntries(parser, read_dir(path))
    ELSE IF is_file(path)
         THEN IF parser.index.kind = "some"
              THEN update_node(parser, path)
              ELSE IF get_path_from_project_root(path).kind = "none"
              THEN [parser EXCEPT !.err = "prefix not found"]
              ELSE [parser EXCEPT !.new_nodes = @ \cup {get_path_from_project_root(path).val}]
    ELSE parser

SearchEntries(parser, dir_entries) ==
    IF parser.err # "none" \/ dir_entries = {} THEN parser
    ELSE LET entry == CHOOSE e \in dir_entries : TRUE
             rest == dir_entries \ {entry}
         IN  IF FileNameOf(entry) = DotGit
             THEN SearchEntries(parser, rest)
             ELSE SearchEntries(search_partial(parser, entry), rest)

\* DiffParser::parse
DiffParser_parse(parser) == search_partial(parser, parser.search_root)

(***************************************************************************)
(* add (add.rs): the new index and the blob list, then the writes          *)
(***************************************************************************)
\* add_entries: for each node in set order, the blob is built, the entry is
\* added to the index and the blob is pushed on the blob list
RECURSIVE add_entries_loop(_, _, _)
add_entries_loop(nodes, index, blob_list) ==
    IF nodes = <<>> THEN [index |-> index, blob_list |-> blob_list]
    ELSE LET node == Head(nodes)
             blob == Blob_from_file(node)
             ie == IndexEntry_from_file(Metadata(node), node, blob.hash)
         IN  add_entries_loop(Tail(nodes), add_entry(index, ie), Append(blob_list, blob))

add_entries(nodes, index, blob_list) ==
    add_entries_loop(SortedKeys(nodes), index, blob_list)

\* create_index
create_index(new) == add_entries(new, Index_new, <<>>)

RECURSIVE DeleteAll(_, _)
DeleteAll(index, nodes) ==
    IF nodes = {} THEN index
    ELSE LET n == CHOOSE x \in nodes : TRUE
         IN  DeleteAll(delete_entry(index, n), nodes \ {n})

\* a mutant of update_index: the deleted nodes are left in the index
update_index_keep(index, new, modify, delete) ==
    LET r1 == add_entries(new, index, <<>>)
    IN  add_entries(modify, r1.index, r1.blob_list)

\* update_index
update_index(index, new, modify, delete) ==
    LET r1 == add_entries(new, DeleteAll(index, delete), <<>>)
    IN  add_entries(modify, r1.index, r1.blob_list)

\* canonicalize(path) succeeds: the search path exists in the working tree
PathExists(path) == is_dir(path) \/ is_file(path)

\* the paths an add invocation is given
SearchRoots == Dirs \cup WorkPaths

Idle == [kind |-> "idle"]
NoResult == [op |-> "none", status |-> "none", cause |-> "none"]
Ok(op) == [op |-> op, status |-> "ok", cause |-> "none"]
Err(op, cause) == [op |-> op, status |-> "err", cause |-> cause]
Panicked(op, cause) == [op |-> op, status |-> "panic", cause |-> cause]

\* an I/O call either succeeds or, while the budget lasts, fails
IoOutcome(ok) ==
    /\ ok \in BOOLEAN
    /\ ~ok => faults < MaxFaults
    /\ faults' = IF ok THEN faults ELSE faults + 1

\* the invocation returns r from run
Return(r) ==
    /\ pc' = "returned"
    /\ mem' = Idle
    /\ result' = r

\* add::run on the argument path, up to the point where the new index is in
\* memory (lines 12-41)
AddFrom(path) ==
        /\ pc = "idle"
        /\ ops < MaxOps
        /\ ops' = ops + 1
        /\ wlog' = <<>>
        /\ tip_before' = branch_tip
        /\ index_before' = index_file
        /\ UNCHANGED <<disk, files, clock, faults, edits, ivars, ovars>>
        /\ IF ~git_dir THEN Return(Err("add", "no .git/ found"))
           ELSE LET index == Index_from_file IN
           IF index.kind = "panic" THEN Return(Panicked("add", "index out of range"))
           ELSE IF ~PathExists(path) THEN Return(Err("add", "canonicalize"))
           ELSE LET index_box == IF index.kind = "some" THEN Some(index.index) ELSE None
                    parser == DiffParser_parse(DiffParser_from(index_box, path))
                    built == IF index_box.kind = "none"
                             THEN create_index(parser.new_nodes)
                             ELSE update_index(index_box.val, parser.new_nodes,
                                               parser.mod_nodes, parser.delete_nodes)
                IN  IF parser.err # "none" THEN Return(Err("add", parser.err))
                    ELSE
                    /\ pc' = "add_index_create"
                    /\ mem' = [kind |-> "add", search_root |-> path,
                               new_index |-> built.index,
                               blob_list |-> built.blob_list, blob_i |-> 1,
                               new |-> parser.new_nodes, modified |-> parser.mod_nodes,
                               deleted |-> parser.delete_nodes]
                    /\ UNCHANGED result

\* add with the project root, a directory or a file of the working tree as
\* its argument
AddBegin == \E path \in SearchRoots : AddFrom(path)

\* add with a path below .git as its argument
AddBeginGit == AddFrom(GitHead)

\* fs::File::create(.git/index) (line 42): the file is created or truncated
AddIndexCreate ==
    \E ok \in BOOLEAN :
        /\ pc = "add_index_create"
        /\ IoOutcome(ok)
        /\ UNCHANGED <<git_dir, head_file, branch_tip, objects, files, clock,
                       tip_before, index_before, edits, ivars, ovars, ops>>
        /\ IF ok
           THEN /\ index_file' = [kind |-> "empty"]
                /\ wlog' = Append(wlog, "index")
                /\ pc' = "add_index_write"
                /\ UNCHANGED <<mem, result>>
           ELSE /\ Return(Err("add", "create index"))
                /\ UNCHANGED <<index_file, wlog>>

\* index_file.write_all(&index_bytes) (line 44), then the blob loop is entered
AddIndexWrite ==
    \E ok \in BOOLEAN :
        /\ pc = "add_index_write"
        /\ IoOutcome(ok)
        /\ UNCHANGED <<git_dir, head_file, branch_tip, objects, files, clock,
                       tip_before, index_before, edits, wlog, ivars, ovars, ops>>
        /\ IF ok
           THEN /\ index_file' = Index_to_file(mem.new_index)
                /\ IF mem.blob_list = <<>>
                   THEN Return(Ok("add"))
                   ELSE /\ pc' = "add_blob_create"
                        /\ UNCHANGED <<mem, result>>
           ELSE /\ index_file' \in TornIndexFiles(Index_to_file(mem.new_index))
                /\ Return(Err("add", "write index"))

\* create_dir_all and fs::File::create(blob_path) (lines 47-52) for the next
\* blob of the list: the object file is created or truncated
AddBlobCreate ==
    \E ok \in BOOLEAN :
        /\ pc = "add_blob_create"
        /\ IoOutcome(ok)
        /\ UNCHANGED <<git_dir, head_file, branch_tip, index_file, files, clock,
                       tip_before, index_before, edits, ivars, ovars, ops>>
        /\ IF ok
           THEN /\ objects' = MapInsert(objects, mem.blob_list[mem.blob_i].hash, "empty")
                /\ wlog' = Append(wlog, "blob")
                /\ pc' = "add_blob_write"
                /\ UNCHANGED <<mem, result>>
           ELSE /\ Return(Err("add", "create blob"))
                /\ UNCHANGED <<objects, wlog>>

\* file.write_all(&data) (line 53) for that blob, then the next one
AddBlobWrite ==
    \E ok \in BOOLEAN :
        /\ pc = "add_blob_write"
        /\ IoOutcome(ok)
        /\ UNCHANGED <<git_dir, head_file, branch_tip, index_file, files, clock,
                       tip_before, index_before, edits, wlog, ivars, ovars, ops>>
        /\ IF ok
           THEN /\ objects' = MapInsert(objects, mem.blob_list[mem.blob_i].hash, "full")
                /\ IF mem.blob_i = Len(mem.blob_list)
                   THEN Return(Ok("add"))
                   ELSE /\ pc' = "add_blob_create"
                        /\ mem' = [mem EXCEPT !.blob_i = @ + 1]
                        /\ UNCHANGED result
           ELSE /\ UNCHANGED objects
                /\ Return(Err("add", "write blob"))

(***************************************************************************)
(* commit (commit.rs, object.rs): the tree builder                         *)
(***************************************************************************)
\* IndexEntry::file_type: (mode >> 12) & 0b1111
file_type(e) == (e.mode \div 4096) % 16

\* IndexEntry::permission: mode & 0b111_111_111
permission(e) == e.mode % 512

\* a mutant of TreeNode::from_index_entry: any permission bits are taken as
\* those of a non-executable file
TreeNode_from_index_entry_any(entry) ==
    LET ft == file_type(entry)
        perm == permission(entry)
    IN  IF ft \notin {8, 10, 14} THEN None
        ELSE Some([file_type |-> IF ft = 8 THEN "File"
                                 ELSE IF ft = 10 THEN "SymbolicLink" ELSE "Submodule",
                   permission |-> IF perm = 493 THEN "Executable" ELSE "UnExecutable",
                   file_name |-> FileNameOf(entry.file_name),
                   hash |-> entry.hash])

\* TreeNode::from_index_entry
TreeNode_from_index_entry(entry) ==
    LET ft == file_type(entry)
        perm == permission(entry)
    IN  IF ft \notin {8, 10, 14} THEN None
        ELSE IF perm \notin {493, 420} THEN None
        ELSE Some([file_type |-> IF ft = 8 THEN "File"
                                 ELSE IF ft = 10 THEN "SymbolicLink" ELSE "Submodule",
                   permission |-> IF perm = 493 THEN "Executable" ELSE "UnExecutable",
                   file_name |-> FileNameOf(entry.file_name),
                   hash |-> entry.hash])

\* TreeNode::from_tree_node
TreeNode_from_tree_node(hash, dir_name) ==
    Some([file_type |-> "Directory", permission |-> "Other",
          file_name |-> dir_name, hash |-> hash])

\* CommitTree::new, CommitTree::Leaf
CommitTree_new == [kind |-> "node", children |-> <<>>]
CommitTree_leaf(entry) == [kind |-> "leaf", entry |-> entry]

\* CommitTree::update_node
RECURSIVE CommitTree_update_node(_, _, _)
CommitTree_update_node(self, node_array, entry) ==
    IF self.kind = "leaf" THEN [kind |-> "err", cause |-> "ref leaf"]
    ELSE IF Len(node_array) = 1
    THEN [kind |-> "ok",
          tree |-> [self EXCEPT !.children =
                       Append(@, [name |-> node_array[1], sub |-> CommitTree_leaf(entry)])]]
    ELSE LET node_name == node_array[1]
             rest == Tail(node_array)
             hits == {i \in 1..Len(self.children) : self.children[i].name = node_name}
         IN  IF hits # {}
             THEN LET i == CHOOSE x \in hits : \A y \in hits : x <= y
                      r == CommitTree_update_node(self.children[i].sub, rest, entry)
                  IN  IF r.kind # "ok" THEN r
                      ELSE [kind |-> "ok", tree |-> [self EXCEPT !.children[i].sub = r.tree]]
             ELSE LET r == CommitTree_update_node(CommitTree_new, rest, entry)
                  IN  IF r.kind # "ok" THEN r
                      ELSE [kind |-> "ok",
                            tree |-> [self EXCEPT !.children =
                                         Append(@, [name |-> node_name, sub |-> r.tree])]]

\* CommitTree::from_index: the entries in the index's iteration order
RECURSIVE CommitTree_from_entries(_, _)
CommitTree_from_entries(tree, ents) ==
    IF ents = <<>> THEN [kind |-> "ok", tree |-> tree]
    ELSE LET r == CommitTree_update_node(tree, Components(Head(ents).file_name), Head(ents))
         IN  IF r.kind # "ok" THEN r
             ELSE CommitTree_from_entries(r.tree, Tail(ents))

CommitTree_from_index(index) ==
    CommitTree_from_entries(CommitTree_new, EntriesInOrder(index))

\* Tree with its hash (Tree::calc_hash)
Tree_of(nodes) ==
    LET payload == [obj_type |-> "tree", nodes |-> nodes]
    IN  [payload |-> payload, hash |-> calc_sha1_bytes(payload)]

\* CommitTree::generate_tree_obj: the hash of this node's Tree and the tree
\* list with the Trees of its sub-nodes pushed before its own; TreeObjLoop is
\* the loop over its children
RECURSIVE generate_tree_obj(_, _), TreeObjLoop(_, _, _, _)
generate_tree_obj(self, tree_list) == TreeObjLoop(self.children, 1, <<>>, tree_list)

TreeObjLoop(children, i, nodes, tree_list) ==
    IF i > Len(children)
    THEN LET tree == Tree_of(nodes)
         IN  [kind |-> "ok", hash |-> tree.hash, tree_list |-> Append(tree_list, tree)]
    ELSE IF children[i].sub.kind = "leaf"
    THEN LET tn == TreeNode_from_index_entry(children[i].sub.entry)
         IN  IF tn.kind = "none" THEN [kind |-> "err", cause |-> "create node failed"]
             ELSE TreeObjLoop(children, i + 1, Append(nodes, tn.val), tree_list)
    ELSE LET r == generate_tree_obj(children[i].sub, tree_list)
         IN  IF r.kind # "ok" THEN r
             ELSE TreeObjLoop(children, i + 1,
                              Append(nodes, TreeNode_from_tree_node(r.hash, children[i].name).val),
                              r.tree_list)

\* CommitUser::from: the configured user at the current time, Local::now(),
\* in the zone of the machine the running commit was started on
CommitUser_from(committer_type) ==
    [committer_type |-> committer_type, name |-> "user",
     address |-> "user@example.com", time_stamp |-> clock, offset |-> mem.zone]

\* Commit::from with its hash (Commit::generate_hash_and_depress)
Commit_from(tree_root, parents, author, committer, message) ==
    LET payload == [obj_type |-> "commit", tree |-> tree_root, parents |-> parents,
                    author |-> author, committer |-> committer,
                    commit_message |-> message]
    IN  [payload |-> payload, hash |-> calc_sha1_bytes(payload)]

\* a mutant of generate_new_commit: the parent list is left empty
generate_new_commit_orphan(head, message, root_hash) ==
    LET author == CommitUser_from("author")
        committer == [author EXCEPT !.committer_type = "committer"]
    IN  IF message.kind = "none" THEN [kind |-> "err", cause |-> "no commit message"]
        ELSE [kind |-> "ok",
              commit |-> Commit_from(root_hash, <<>>, author, committer, message.val)]

\* CommitGenerator::generate_new_commit
generate_new_commit(head, message, root_hash) ==
    LET parents == IF head.hash.kind = "none" THEN <<>> ELSE <<head.hash.val>>
        author == CommitUser_from("author")
        committer == [author EXCEPT !.committer_type = "committer"]
    IN  IF message.kind = "none" THEN [kind |-> "err", cause |-> "no commit message"]
        ELSE [kind |-> "ok",
              commit |-> Commit_from(root_hash, parents, author, committer, message.val)]

\* the -m argument
Messages == {None, Some("first")}

\* the zones of the machines commit runs on, as seconds east of UTC: +0900, -0500
MachineZones == {32400, -18000}

(***************************************************************************)
(* commit (commit.rs): the invocation, write by write                      *)
(***************************************************************************)
\* commit::run up to the point where the tree list is in memory: lines 13-32
\* and CommitGenerator::exec line 75
CommitBegin ==
    \E message \in Messages, conf_ok \in BOOLEAN, zone \in MachineZones :
        /\ pc = "idle"
        /\ ops < MaxOps
        /\ ops' = ops + 1
        /\ wlog' = <<>>
        /\ tip_before' = branch_tip
        /\ index_before' = index_file
        /\ UNCHANGED <<disk, files, clock, faults, edits, ivars, ovars>>
        /\ IF ~conf_ok THEN Return(Err("commit", "config"))
           ELSE IF ~git_dir THEN Return(Err("commit", "no .git/ found"))
           ELSE LET head == Head_new IN
           IF head.kind # "ok" THEN Return(Err("commit", head.cause))
           ELSE IF head.head.is_dangling THEN Return(Err("commit", "header is detached"))
           ELSE LET index == Index_from_file IN
           IF index.kind = "panic" THEN Return(Panicked("commit", "index out of range"))
           ELSE IF index.kind = "none" THEN Return(Err("commit", "no index found"))
           ELSE LET commit_tree == CommitTree_from_index(index.index) IN
           IF commit_tree.kind # "ok" THEN Return(Err("commit", commit_tree.cause))
           ELSE LET gen == generate_tree_obj(commit_tree.tree, <<>>) IN
           IF gen.kind # "ok" THEN Return(Err("commit", gen.cause))
           ELSE /\ pc' = "commit_tree"
                /\ mem' = [kind |-> "commit", tree_list |-> gen.tree_list, tree_i |-> 1,
                           root_hash |-> gen.hash, head |-> head.head,
                           message |-> message, commit |-> None, zone |-> zone]
                /\ UNCHANGED result

\* generate_tree_file, one tree of the list: skipped when its file exists,
\* otherwise create_dir_all and fs::File::create (lines 102-110)
CommitTreeCreate ==
    \E ok \in BOOLEAN :
        /\ pc = "commit_tree"
        /\ mem.tree_i <= Len(mem.tree_list)
        /\ UNCHANGED <<git_dir, head_file, branch_tip, index_file, files, clock,
                       tip_before, index_before, edits, ivars, ovars, ops>>
        /\ IF ObjExists(mem.tree_list[mem.tree_i].hash)
           THEN /\ ok
                /\ mem' = [mem EXCEPT !.tree_i = @ + 1]
                /\ UNCHANGED <<objects, wlog, pc, result, faults>>
           ELSE /\ IoOutcome(ok)
                /\ IF ok
                   THEN /\ objects' = MapInsert(objects, mem.tree_list[mem.tree_i].hash, "empty")
                        /\ wlog' = Append(wlog, "tree")
                        /\ pc' = "commit_tree_write"
                        /\ UNCHANGED <<mem, result>>
                   ELSE /\ Return(Err("commit", "create tree"))
                        /\ UNCHANGED <<objects, wlog>>

\* file.write_all(&data) for that tree (line 111)
CommitTreeWrite ==
    \E ok \in BOOLEAN :
        /\ pc = "commit_tree_write"
        /\ IoOutcome(ok)
        /\ UNCHANGED <<git_dir, head_file, branch_tip, index_file, files, clock,
                       tip_before, index_before, edits, wlog, ivars, ovars, ops>>
        /\ IF ok
           THEN /\ objects' = MapInsert(objects, mem.tree_list[mem.tree_i].hash, "full")
                /\ pc' = "commit_tree"
                /\ mem' = [mem EXCEPT !.tree_i = @ + 1]
                /\ UNCHANGED result
           ELSE /\ UNCHANGED objects
                /\ Return(Err("commit", "write tree"))

\* a mutant of CommitCompose: the branch file is overwritten as soon as the
\* commit is composed, before the commit object is written
CommitCompose_tip_first ==
    /\ pc = "commit_tree"
    /\ mem.tree_i > Len(mem.tree_list)
    /\ UNCHANGED <<git_dir, head_file, objects, index_file, files, clock, tip_before, index_before,
                   edits, faults, ivars, ovars, ops>>
    /\ LET r == generate_new_commit(mem.head, mem.message, mem.root_hash)
       IN  IF r.kind # "ok"
           THEN /\ Return(Err("commit", r.cause))
                /\ UNCHANGED <<branch_tip, wlog>>
           ELSE /\ mem' = [mem EXCEPT !.commit = Some(r.commit)]
                /\ branch_tip' = Hash_string(r.commit.hash)
                /\ wlog' = Append(wlog, "tip")
                /\ pc' = IF ObjExists(r.commit.hash)
                         THEN "commit_tip_create" ELSE "commit_obj_create"
                /\ UNCHANGED result

\* CommitGenerator::exec lines 79-83 and commit::run lines 34-39: the commit
\* object is composed once every tree is on disk; it is written unless its
\* file exists
CommitCompose ==
    /\ pc = "commit_tree"
    /\ mem.tree_i > Len(mem.tree_list)
    /\ UNCHANGED <<disk, files, clock, tip_before, index_before, edits, wlog, faults, ivars, ovars, ops>>
    /\ LET r == generate_new_commit(mem.head, mem.message, mem.root_hash)
       IN  IF r.kind # "ok" THEN Return(Err("commit", r.cause))
           ELSE /\ mem' = [mem EXCEPT !.commit = Some(r.commit)]
                /\ pc' = IF ObjExists(r.commit.hash)
                         THEN "commit_tip_create" ELSE "commit_obj_create"
                /\ UNCHANGED result

\* fs::write(obj_path, &body) (line 40), its File::create
CommitObjCreate ==
    \E ok \in BOOLEAN :
        /\ pc = "commit_obj_create"
        /\ IoOutcome(ok)
        /\ UNCHANGED <<git_dir, head_file, branch_tip, index_file, files, clock,
                       tip_before, index_before, edits, ivars, ovars, ops>>
        /\ IF ok
           THEN /\ objects' = MapInsert(objects, mem.commit.val.hash, "empty")
                /\ wlog' = Append(wlog, "commit")
                /\ pc' = "commit_obj_write"
                /\ UNCHANGED <<mem, result>>
           ELSE /\ Return(Err("commit", "create commit"))
                /\ UNCHANGED <<objects, wlog>>

\* fs::write(obj_path, &body) (line 40), its write_all
CommitObjWrite ==
    \E ok \in BOOLEAN :
        /\ pc = "commit_obj_write"
        /\ IoOutcome(ok)
        /\ UNCHANGED <<git_dir, head_file, branch_tip, index_file, files, clock,
                       tip_before, index_before, edits, wlog, ivars, ovars, ops>>
        /\ IF ok
           THEN /\ objects' = MapInsert(objects, mem.commit.val.hash, "full")
                /\ pc' = "commit_tip_create"
                /\ UNCHANGED <<mem, result>>
           ELSE /\ UNCHANGED objects
                /\ Return(Err("commit", "write commit"))

\* fs::write(branch_path, hash.string()) (lines 43-45), its File::create:
\* the branch file is created or truncated; head.branch().unwrap() panics
\* when HEAD named no branch
CommitTipCreate ==
    \E ok \in BOOLEAN :
        /\ pc = "commit_tip_create"
        /\ UNCHANGED <<git_dir, head_file, objects, index_file, files, clock,
                       tip_before, index_before, edits, ivars, ovars, ops>>
        /\ IF mem.head.branch.kind = "none"
           THEN /\ ok
                /\ Return(Panicked("commit", "unwrap on None"))
                /\ UNCHANGED <<branch_tip, wlog, faults>>
           ELSE /\ IoOutcome(ok)
                /\ IF ok
                   THEN /\ branch_tip' = [kind |-> "empty"]
                        /\ wlog' = Append(wlog, "tip")
                        /\ pc' = "commit_tip_write"
                        /\ UNCHANGED <<mem, result>>
                   ELSE /\ Return(Err("commit", "create tip"))
                        /\ UNCHANGED <<branch_tip, wlog>>

\* fs::write(branch_path, hash.string()) (line 45), its write_all
CommitTipWrite ==
    \E ok \in BOOLEAN :
        /\ pc = "commit_tip_write"
        /\ IoOutcome(ok)
        /\ UNCHANGED <<git_dir, head_file, objects, index_file, files, clock,
                       tip_before, index_before, edits, wlog, ivars, ovars, ops>>
        /\ IF ok
           THEN /\ branch_tip' = Hash_string(mem.commit.val.hash)
                /\ Return(Ok("commit"))
           ELSE /\ UNCHANGED branch_tip
                /\ Return(Err("commit", "write tip"))

(***************************************************************************)
(* init (init.rs) and the user's changes between invocations               *)
(***************************************************************************)
\* main: the process reports the result and exits
Exit ==
    /\ pc = "returned"
    /\ pc' = "idle"
    /\ result' = NoResult
    /\ wlog' = <<>>
    /\ tip_before' = Absent
    /\ index_before' = Absent
    /\ UNCHANGED <<disk, files, clock, mem, faults, edits, ivars, ovars, ops>>

\* a mutant of InitRun: HEAD is written whether it exists or not
InitRun_rewrite ==
    /\ pc = "idle"
    /\ ops < MaxOps
    /\ ops' = ops + 1
    /\ git_dir' = TRUE
    /\ head_file' = [kind |-> "data", data |-> InitialHead]
    /\ Return(Ok("init"))
    /\ wlog' = <<>>
    /\ tip_before' = branch_tip
    /\ index_before' = index_file
    /\ UNCHANGED <<branch_tip, objects, index_file, files, clock, faults, edits, ivars, ovars>>

\* init::run: .git/ and its directories are created when missing, HEAD is
\* written only when it does not exist
InitRun ==
    /\ pc = "idle"
    /\ ops < MaxOps
    /\ ops' = ops + 1
    /\ git_dir' = TRUE
    /\ head_file' = IF head_file.kind = "absent"
                    THEN [kind |-> "data", data |-> InitialHead]
                    ELSE head_file
    /\ Return(Ok("init"))
    /\ wlog' = <<>>
    /\ tip_before' = branch_tip
    /\ index_before' = index_file
    /\ UNCHANGED <<branch_tip, objects, index_file, files, clock, faults, edits, ivars, ovars>>

\* the user writes a file (creating it with mode 0o100644 when it is new)
WriteFile ==
    \E p \in WorkPaths, c \in Contents :
        /\ pc = "idle"
        /\ edits < MaxEdits
        /\ edits' = edits + 1
        /\ files' = MapInsert(files, p,
                        [content |-> c, mtime |-> clock, mtime_nano |-> 0,
                         mode |-> IF p \in DOMAIN files THEN files[p].mode ELSE ModeRegular])
        /\ UNCHANGED <<disk, clock, pc, mem, result, wlog, tip_before, index_before, faults, ivars, ovars, ops>>

\* the user removes a file
RemoveFile ==
    \E p \in DOMAIN files :
        /\ pc = "idle"
        /\ edits < MaxEdits
        /\ edits' = edits + 1
        /\ files' = MapRemove(files, p)
        /\ UNCHANGED <<disk, clock, pc, mem, result, wlog, tip_before, index_before, faults, ivars, ovars, ops>>

\* the user changes the permission bits of a file
Chmod ==
    \E p \in DOMAIN files, m \in Modes :
        /\ pc = "idle"
        /\ edits < MaxEdits
        /\ files[p].mode # m
        /\ edits' = edits + 1
        /\ files' = [files EXCEPT ![p].mode = m]
        /\ UNCHANGED <<disk, clock, pc, mem, result, wlog, tip_before, index_before, faults, ivars, ovars, ops>>

\* another tool detaches HEAD
DetachHead ==
    /\ pc = "idle"
    /\ edits < MaxEdits
    /\ git_dir
    /\ head_file.kind = "data"
    /\ ~is_head_dangling(head_file.data)
    /\ edits' = edits + 1
    /\ head_file' = [kind |-> "data", data |-> RawHead]
    /\ UNCHANGED <<git_dir, branch_tip, objects, index_file, files, clock, pc, mem,
                   result, wlog, tip_before, index_before, faults, ivars, ovars, ops>>

\* time passes
Tick ==
    /\ pc = "idle"
    /\ clock < MaxClock
    /\ clock' = clock + 1
    /\ UNCHANGED <<disk, files, pc, mem, result, wlog, tip_before, index_before, faults, edits, ivars, ovars, ops>>

(***************************************************************************)
(* The specifications                                                      *)
(***************************************************************************)
InitRepo ==
    /\ git_dir = FALSE
    /\ head_file = Absent
    /\ branch_tip = Absent
    /\ objects = EmptyMap
    /\ index_file = Absent
    /\ files = EmptyMap
    /\ clock = 0
    /\ pc = "idle"
    /\ mem = Idle
    /\ result = NoResult
    /\ wlog = <<>>
    /\ tip_before = Absent
    /\ index_before = Absent
    /\ faults = 0
    /\ ops = 0
    /\ edits = 0

Init == InitIndex /\ InitRepo /\ calls = <<>>

NextIndex == IAddEntry \/ IDeleteEntry \/ IToBytes \/ IFrom

\* the index and its byte format
SpecIndex == Init /\ [][NextIndex]_vars

(***************************************************************************)
(* add on any staged state: the working tree and the index are drawn, each *)
(* path absent or present with one of the times below, the index holding   *)
(* the entries and the object store the blobs of an earlier add.           *)
(***************************************************************************)
AddPaths == WorkPaths \cup {PathCD}

\* (seconds, nanoseconds) of an mtime
StatTimes == {[sec |-> 0, nsec |-> 0], [sec |-> 0, nsec |-> 1], [sec |-> 1, nsec |-> 0]}

\* the file at path p with mtime t; each path holds its own content
FileAt(p, t) ==
    [content |-> p[Len(p)], mtime |-> t.sec, mtime_nano |-> t.nsec, mode |-> ModeRegular]

\* the entry add_entry stored for path p when its file had mtime t
StagedEntry(p, t) ==
    LET f == FileAt(p, t)
    IN  IndexEntry_from_file(StatOf(p, f), p, Blob_new(<<f.content>>).hash)

\* the Index an earlier add left: the paths of st that are staged
StagedIndex(st) ==
    LET P == {p \in AddPaths : st[p] # Absent}
    IN  [version |-> 2, entry_num |-> Cardinality(P),
         entries |-> [p \in P |-> StagedEntry(p, st[p])]]

\* what lstat gives for a symbolic link
LinkAt(p) == [content |-> 0, mtime |-> 0, mtime_nano |-> 0, mode |-> ModeLink]

\* a repository after init and earlier adds, with the symbolic links L in
\* the working tree and mtimes drawn from T
InitStaged(L, T) ==
    /\ InitIndex
    /\ git_dir = TRUE
    /\ head_file = [kind |-> "data", data |-> InitialHead]
    /\ branch_tip = Absent
    /\ \E ft \in [AddPaths -> T \cup {Absent}] :
          files = [p \in {q \in AddPaths : ft[q] # Absent} \cup L |->
                      IF p \in L THEN LinkAt(p) ELSE FileAt(p, ft[p])]
    /\ \E st \in [AddPaths -> T \cup {Absent}] :
          LET index == StagedIndex(st)
          IN  /\ index_file = IF index.entries = EmptyMap THEN Absent
                              ELSE Index_to_file(index)
              /\ objects = [h \in {index.entries[p].hash : p \in DOMAIN index.entries}
                              |-> "full"]
    /\ clock = 0
    /\ pc = "idle"
    /\ mem = Idle
    /\ result = NoResult
    /\ wlog = <<>>
    /\ tip_before = Absent
    /\ index_before = Absent
    /\ faults = 0
    /\ ops = MaxOps - 1
    /\ edits = 0
    /\ calls = <<>>

InitAdd == InitStaged({}, StatTimes)

NextAdd ==
    \/ AddBegin \/ AddIndexCreate \/ AddIndexWrite \/ AddBlobCreate \/ AddBlobWrite
    \/ Exit

\* one add invocation on any staged state
SpecAdd == InitAdd /\ [][NextAdd]_vars

InitWalk ==
    \E L \in SUBSET LinkPaths :
        InitStaged(L, {[sec |-> 0, nsec |-> 0], [sec |-> 0, nsec |-> 1]})

NextWalk ==
    \/ AddBegin \/ AddBeginGit \/ AddIndexCreate \/ AddIndexWrite \/ AddBlobCreate
    \/ AddBlobWrite \/ Exit

\* one add invocation, with any path argument, on any staged state whose
\* working tree may hold symbolic links
SpecWalk == InitWalk /\ [][NextWalk]_vars

(***************************************************************************)
(* Text (common.rs, hash.rs, object.rs).  A String is the sequence of its  *)
(* bytes; every text of the model is ASCII, so a char is a byte.           *)
(***************************************************************************)
Nul == 0             \* '\0'
Space == 32          \* ' '
Plus == 43           \* '+'
Minus == 45          \* '-'
Dot == 46            \* '.'
Digit0 == 48         \* '0'
Lt == 60             \* '<'
Gt == 62             \* '>'
At == 64             \* '@'
LowerA == 97         \* 'a'
LowerF == 102        \* 'f'

IsDigit(c) == c >= Digit0 /\ c <= Digit0 + 9
IsAlpha(c) == (c >= 65 /\ c <= 90) \/ (c >= LowerA /\ c <= 122)

\* the two build profiles: overflow checks on (debug) or off (release)
Profiles == {"debug", "release"}

\* x / y and x % y of Rust's signed integers, y > 0: the quotient is truncated
\* toward zero and the remainder has the sign of x
TruncDiv(x, y) == IF x >= 0 THEN x \div y ELSE -((-x) \div y)
TruncRem(x, y) == x - y * TruncDiv(x, y)

\* the ? of Rust, and a panic on the way: None and a panic are returned as
\* they are, a value is handed on
AndThen(r, F(_)) == IF r.kind # "some" THEN r ELSE F(r.val)

\* the decimal digits of n >= 0
RECURSIVE Digits(_)
Digits(n) == IF n < 10 THEN <<Digit0 + n>> ELSE Digits(n \div 10) \o <<Digit0 + (n % 10)>>

\* format!("{}", n) of an integer
Display(n) == IF n < 0 THEN <<Minus>> \o Digits(-n) ELSE Digits(n)

\* format!("{:<02}", n) of an integer: the 0 flag pads with zeros after the
\* sign up to the width, whatever the alignment
FormatWidth2(n) ==
    LET s == Display(n)
    IN  IF Len(s) >= 2 THEN s ELSE <<Digit0>> \o s

\* the value of a nonempty run of decimal digits
RECURSIVE DigitsValue(_)
DigitsValue(s) ==
    IF Len(s) = 1 THEN s[1] - Digit0
    ELSE 10 * DigitsValue(SubSeq(s, 1, Len(s) - 1)) + (s[Len(s)] - Digit0)

\* str::parse of a signed integer: an optional sign, then one or more digits
ParseInt(s) ==
    LET signed == s # <<>> /\ s[1] \in {Plus, Minus}
        ds == IF signed THEN Tail(s) ELSE s
    IN  IF ds = <<>> \/ \E i \in 1..Len(ds) : ~IsDigit(ds[i]) THEN None
        ELSE [kind |-> "some",
              val |-> IF signed /\ s[1] = Minus THEN -DigitsValue(ds) ELSE DigitsValue(ds)]

\* str::parse of an unsigned integer: an optional '+', then one or more digits
ParseUnsigned(s) ==
    IF s # <<>> /\ s[1] = Minus THEN None ELSE ParseInt(s)

\* str::split: the pieces of s between the occurrences of the byte sep
str_split(s, sep) ==
    LET at == {i \in 1..Len(s) : s[i] = sep}
        n == Cardinality(at)
        pos(k) == IF k = 0 THEN 0
                  ELSE IF k = n + 1 THEN Len(s) + 1
                  ELSE CHOOSE p \in at : Cardinality({q \in at : q <= p}) = k
    IN  [k \in 1..(n + 1) |-> SubSeq(s, pos(k - 1) + 1, pos(k) - 1)]

\* [&str]::join
RECURSIVE str_join(_, _)
str_join(pieces, sep) ==
    IF pieces = <<>> THEN <<>>
    ELSE IF Len(pieces) = 1 THEN pieces[1]
    ELSE pieces[1] \o <<sep>> \o str_join(Tail(pieces), sep)

\* common.rs byte_to_hex: two lowercase hexadecimal digits
byte_to_hex(byte) ==
    LET big == byte \div 16
        small == byte % 16
    IN  <<IF big < 10 THEN Digit0 + big ELSE LowerA + big - 10,
          IF small < 10 THEN Digit0 + small ELSE LowerA + small - 10>>

\* common.rs bytes_to_hex
RECURSIVE bytes_to_hex(_)
bytes_to_hex(byte) ==
    IF byte = <<>> THEN <<>> ELSE byte_to_hex(Head(byte)) \o bytes_to_hex(Tail(byte))

\* u8 arithmetic: a result outside 0..255 panics under debug and wraps under
\* release
U8(v, profile) ==
    IF v >= 0 /\ v <= 255 THEN [kind |-> "some", val |-> v]
    ELSE IF profile = "debug" THEN Panic
    ELSE [kind |-> "some", val |-> v % 256]

\* common.rs hex_to_u8: 'a'..'f' give 10..15, any other char gives its code
\* minus the code of '0'
hex_to_u8(hex, profile) ==
    IF hex >= LowerA /\ hex <= LowerF THEN [kind |-> "some", val |-> hex - LowerA + 10]
    ELSE U8(hex - Digit0, profile)

\* one step of the loop of hex_to_bytes: hex_to_u8(h) * 16 + hex_to_u8(l)
HexPair(h, l, profile) ==
    LET hi == hex_to_u8(h, profile)
        lo == hex_to_u8(l, profile)
    IN  IF hi.kind = "panic" THEN Panic
        ELSE LET m == U8(hi.val * 16, profile)
             IN  IF m.kind = "panic" \/ lo.kind = "panic" THEN Panic
                 ELSE U8(m.val + lo.val, profile)

\* common.rs hex_to_bytes: None for an odd length, else one byte for each pair
RECURSIVE hex_to_bytes_loop(_, _, _)
hex_to_bytes_loop(hex_str, i, profile) ==
    IF i >= Len(hex_str) THEN [kind |-> "some", val |-> <<>>]
    ELSE LET b == HexPair(hex_str[i + 1], hex_str[i + 2], profile)
         IN  IF b.kind = "panic" THEN Panic
             ELSE LET rest == hex_to_bytes_loop(hex_str, i + 2, profile)
                  IN  IF rest.kind = "panic" THEN Panic
                      ELSE [kind |-> "some", val |-> <<b.val>> \o rest.val]

hex_to_bytes(hex_str, profile) ==
    IF Len(hex_str) % 2 = 1 THEN None ELSE hex_to_bytes_loop(hex_str, 0, profile)

\* hash.rs Hash::from: a Hash holds exactly 20 bytes
Hash_from(bytes) ==
    IF Len(bytes) # HashLen THEN None ELSE [kind |-> "some", val |-> bytes]

\* hash.rs Hash::from_string on the text of a hexadecimal string
Hash_from_string_bytes(string, profile) ==
    IF Len(string) # 2 * HashLen THEN None
    ELSE LET bytes == hex_to_bytes(string, profile)
         IN  IF bytes.kind # "some" THEN bytes ELSE Hash_from(bytes.val)

\* hash.rs Hash::string on the 20 bytes of a Hash
Hash_string_bytes(h) == bytes_to_hex(h)

(***************************************************************************)
(* CommitUser (object.rs).  A time_stamp is a DateTime<FixedOffset>: the   *)
(* instant (seconds and nanoseconds since the epoch) and the offset of its *)
(* zone east of UTC in seconds.                                            *)
(***************************************************************************)
AuthorCode == <<97, 117, 116, 104, 111, 114>>                     \* "author"
CommitterCode == <<99, 111, 109, 109, 105, 116, 116, 101, 114>>   \* "committer"

\* CommitterType::to_code_string
CommitterType_to_code_string(t) == IF t = "Author" THEN AuthorCode ELSE CommitterCode

\* CommitterType::from_code_bytes
CommitterType_from_code_bytes(code) ==
    IF StartsWith(code, AuthorCode) THEN Some("Author")
    ELSE IF StartsWith(code, CommitterCode) THEN Some("Committer")
    ELSE None

\* the largest |offset| FixedOffset::east accepts is one second less than a day
DaySeconds == 86400

\* CommitUser::to_string
CommitUser_to_string(u) ==
    LET timestamp == u.time_stamp.secs
        timezone == u.time_stamp.offset
        timezone_hour == TruncDiv(timezone, 3600)
        timezone_min == TruncDiv(TruncRem(timezone, 3600), 60)
        timezone_str ==
            IF timezone > 0
            THEN <<Plus>> \o FormatWidth2(timezone_hour) \o FormatWidth2(timezone_min)
            ELSE IF timezone < 0
            THEN <<Minus>> \o FormatWidth2(timezone_hour) \o FormatWidth2(timezone_min)
            ELSE <<Digit0, Digit0, Digit0, Digit0>>
    IN  CommitterType_to_code_string(u.committer_type) \o <<Space>> \o u.name
        \o <<Space, Lt>> \o u.address \o <<Gt, Space>> \o Display(timestamp)
        \o <<Space>> \o timezone_str

\* calc_time_offset: None unless 4 or 5 chars; 0 without a sign; else the
\* hours and minutes at [1..3] and [3..5], negated after '-'
calc_time_offset(time) ==
    IF Len(time) < 4 \/ Len(time) > 5 THEN None
    ELSE IF ~StartsWith(time, <<Plus>>) /\ ~StartsWith(time, <<Minus>>) THEN Some(0)
    ELSE IF Len(time) < 5 THEN Panic
    ELSE LET hour == ParseInt(Slice(time, 1, 3))
             min == ParseInt(Slice(time, 3, 5))
         IN  IF hour.kind = "none" \/ min.kind = "none" THEN None
             ELSE LET value == hour.val * 3600 + min.val * 60
                  IN  IF time[1] = Plus THEN Some(value) ELSE Some(-value)

\* the classes of the regular expression of CommitUser::from_bytes:
\* \w, \d, [a-zA-Z0-9.!#$%&'*+/=?^_`{|}~-], [a-zA-Z0-9-] and "not '>'"
AlphaNum == {c \in 0..127 : IsDigit(c) \/ IsAlpha(c)}
WordChars == AlphaNum \cup {95}
DigitChars == {c \in 0..127 : IsDigit(c)}
LocalChars ==
    AlphaNum \cup {46, 33, 35, 36, 37, 38, 39, 42, 43, 47, 61, 63, 94, 95, 96,
                   123, 124, 125, 126, 45}
DomainChars == AlphaNum \cup {Minus}
NotGt == (0..127) \ {Gt}

\* the number of bytes of s, from 1-based position i on, that are in the class
\* before the first that is not
RECURSIVE RunLen(_, _, _)
RunLen(s, i, class) ==
    IF i > Len(s) \/ s[i] \notin class THEN 0 ELSE 1 + RunLen(s, i + 1, class)

\* [a-zA-Z0-9-]+(?:\.[a-zA-Z0-9-]+)* matches the whole of s
IsDomain(s) ==
    LET labels == str_split(s, Dot)
    IN  \A i \in 1..Len(labels) :
            /\ labels[i] # <<>>
            /\ \A j \in 1..Len(labels[i]) : labels[i][j] \in DomainChars

\* <local>+@<domain> matches the whole of s
IsAddress(s) ==
    LET local == RunLen(s, 1, LocalChars)
    IN  /\ local >= 1
        /\ local < Len(s)
        /\ s[local + 1] = At
        /\ IsDomain(SubSeq(s, local + 2, Len(s)))

\* the captures of
\*   ^(\w*) (.*) <(address)> (\d+) ([+-]?\d{4})
\* on s when group 2 ends at 1-based position b, or None when the rest of the
\* expression does not match there.  Every other group is determined by b,
\* since no class accepts the byte that follows its group: group 1 ends at a,
\* the address at c, the seconds at d and the zone at e.
AfterZone(s, a, b, c, d, e) ==
    IF e <= Len(s) /\ \A i \in (e - 3)..e : s[i] \in DigitChars
    THEN Some(<<SubSeq(s, 1, a), SubSeq(s, a + 2, b), SubSeq(s, b + 3, c),
                SubSeq(s, c + 3, d), SubSeq(s, d + 2, e)>>)
    ELSE None

AfterSeconds(s, a, b, c, d) ==
    IF d >= c + 3 /\ d + 1 <= Len(s) /\ s[d + 1] = Space
    THEN AfterZone(s, a, b, c, d,
                   IF d + 2 <= Len(s) /\ s[d + 2] \in {Plus, Minus} THEN d + 6 ELSE d + 5)
    ELSE None

AfterAddress(s, a, b, c) ==
    IF /\ c + 2 <= Len(s) /\ s[c + 1] = Gt /\ s[c + 2] = Space
       /\ IsAddress(SubSeq(s, b + 3, c))
    THEN AfterSeconds(s, a, b, c, c + 2 + RunLen(s, c + 3, DigitChars))
    ELSE None

AfterType(s, a, b) ==
    IF /\ a < Len(s) /\ s[a + 1] = Space
       /\ b >= a + 1
       /\ \A i \in (a + 2)..b : s[i] # NewLine
       /\ b + 2 <= Len(s) /\ s[b + 1] = Space /\ s[b + 2] = Lt
    THEN AfterAddress(s, a, b, b + 2 + RunLen(s, b + 3, NotGt))
    ELSE None

CapturesAt(s, b) == AfterType(s, RunLen(s, 1, WordChars), b)

\* Regex::captures: .* is greedy, so group 2 ends at the last position where
\* the rest matches
Captures(s) ==
    LET ends == {b \in 1..Len(s) : CapturesAt(s, b).kind = "some"}
    IN  IF ends = {} THEN None
        ELSE CapturesAt(s, CHOOSE b \in ends : \A o \in ends : o <= b)

\* FixedOffset::east(time_offset).timestamp(secs, 0): east panics unless the
\* offset is less than a day
east_timestamp(time_offset, secs) ==
    IF time_offset <= -DaySeconds \/ time_offset >= DaySeconds THEN Panic
    ELSE Some([secs |-> secs, nanos |-> 0, offset |-> time_offset])

\* CommitUser::from_bytes from the captures on
CommitUser_from_captures(caps) ==
    AndThen(CommitterType_from_code_bytes(caps[1]), LAMBDA committer_type :
    AndThen(ParseInt(caps[4]), LAMBDA u_time_without_timezone :
    AndThen(calc_time_offset(caps[5]), LAMBDA time_offset :
    AndThen(east_timestamp(time_offset, u_time_without_timezone), LAMBDA time_stamp :
        Some([committer_type |-> committer_type, name |-> caps[2], address |-> caps[3],
              time_stamp |-> time_stamp])))))

\* CommitUser::from_bytes
CommitUser_from_bytes(bytes) == AndThen(Captures(bytes), CommitUser_from_captures)

\* DateTime's PartialEq: the same instant, whatever the two offsets
DateTimeEq(s, t) == s.secs = t.secs /\ s.nanos = t.nanos

\* CommitUser's derived PartialEq
CommitUserEq(u, v) ==
    /\ u.committer_type = v.committer_type
    /\ u.name = v.name
    /\ u.address = v.address
    /\ DateTimeEq(u.time_stamp, v.time_stamp)

\* CommitUser::default
CommitUser_default ==
    [committer_type |-> "Author", name |-> <<>>, address |-> <<>>,
     time_stamp |-> [secs |-> 0, nanos |-> 0, offset |-> 0]]

(***************************************************************************)
(* Commit (object.rs): serialization and parsing                           *)
(***************************************************************************)
CommitWord == <<99, 111, 109, 109, 105, 116>>      \* "commit"
TreeWord == <<116, 114, 101, 101>>                 \* "tree"
ParentWord == <<112, 97, 114, 101, 110, 116>>      \* "parent"
BlobWord == <<98, 108, 111, 98>>                   \* "blob"

\* Commit::from on byte-level values
Commit_of(tree_root, parents, author, committer, message) ==
    [tree |-> tree_root, parents |-> parents, author |-> author,
     committer |-> committer, commit_message |-> message]

\* the "parent <hex>" lines of to_bytes
parents_str(parents) ==
    [i \in 1..Len(parents) |-> ParentWord \o <<Space>> \o Hash_string_bytes(parents[i])]

\* Commit::to_bytes
Commit_to_bytes(self) ==
    LET body ==
            IF Len(self.parents) = 0
            THEN TreeWord \o <<Space>> \o Hash_string_bytes(self.tree) \o <<NewLine>>
                 \o CommitUser_to_string(self.author) \o <<NewLine>>
                 \o CommitUser_to_string(self.committer) \o <<NewLine, NewLine>>
                 \o self.commit_message
            ELSE TreeWord \o <<Space>> \o Hash_string_bytes(self.tree) \o <<NewLine>>
                 \o str_join(parents_str(self.parents), NewLine) \o <<NewLine>>
                 \o CommitUser_to_string(self.author) \o <<NewLine>>
                 \o CommitUser_to_string(self.committer) \o <<NewLine, NewLine>>
                 \o self.commit_message \o <<NewLine>>
    IN  CommitWord \o <<Space>> \o Display(Len(body)) \o <<Nul>> \o body

\* one line of the loop of Commit::from_bytes: the commit after the line
LineStep(line, commit, profile) ==
    IF StartsWith(line, TreeWord)
    THEN IF Len(line) < 5 THEN Panic
         ELSE AndThen(Hash_from_string_bytes(SliceFrom(line, 5), profile),
                      LAMBDA h : Some([commit EXCEPT !.tree = h]))
    ELSE IF StartsWith(line, ParentWord)
    THEN IF Len(line) < 7 THEN Panic
         ELSE AndThen(Hash_from_string_bytes(SliceFrom(line, 7), profile),
                      LAMBDA h : Some([commit EXCEPT !.parents = Append(@, h)]))
    ELSE IF StartsWith(line, AuthorCode)
    THEN AndThen(CommitUser_from_bytes(line),
                 LAMBDA u : Some([commit EXCEPT !.author = u]))
    ELSE IF StartsWith(line, CommitterCode)
    THEN AndThen(CommitUser_from_bytes(line),
                 LAMBDA u : Some([commit EXCEPT !.committer = u]))
    ELSE Some(commit)

\* the loop of Commit::from_bytes over the lines from index i (0-based) on:
\* the commit and the index where the message starts, or None, or a panic.
\* The loop ends after the first empty line.
RECURSIVE Commit_from_lines(_, _, _, _), Commit_after_line(_, _, _, _)
Commit_from_lines(lines, i, commit, profile) ==
    IF i >= Len(lines) THEN Some([commit |-> commit, idx |-> i])
    ELSE Commit_after_line(lines, i, LineStep(lines[i + 1], commit, profile), profile)

Commit_after_line(lines, i, step, profile) ==
    IF step.kind # "some" THEN step
    ELSE IF Len(lines[i + 1]) = 0 THEN Some([commit |-> step.val, idx |-> i + 1])
    ELSE Commit_from_lines(lines, i + 1, step.val, profile)

\* the Commit that the loop of from_bytes starts from
Commit_default ==
    Commit_of(Zeros(HashLen), <<>>, CommitUser_default, CommitUser_default, <<>>)

\* Commit::from_bytes from the lines of the body on: the message is the lines
\* after the loop, joined
Commit_from_body(lines, profile) ==
    AndThen(Commit_from_lines(lines, 0, Commit_default, profile), LAMBDA looped :
        Some([looped.commit EXCEPT !.commit_message =
                 str_join(SubSeq(lines, looped.idx + 1, Len(lines)), NewLine)]))

\* the 0-based offset of the body: "commit ", the length text, the NUL
offset_header(bytes) == 7 + Len(extract_until_null(SliceFrom(bytes, 7))) + 1

\* Commit::from_bytes.  The length written in the header is skipped over and
\* never read.
Commit_from_bytes(bytes, profile) ==
    IF ~StartsWith(bytes, CommitWord) THEN None
    ELSE IF Len(bytes) < 7 THEN Panic
    ELSE IF offset_header(bytes) > Len(bytes) THEN Panic
    ELSE Commit_from_body(str_split(SliceFrom(bytes, offset_header(bytes)), NewLine),
                          profile)

\* Commit's derived PartialEq
CommitEq(c, d) ==
    /\ c.tree = d.tree
    /\ c.parents = d.parents
    /\ CommitUserEq(c.author, d.author)
    /\ CommitUserEq(c.committer, d.committer)
    /\ c.commit_message = d.commit_message

\* Commit::timestamp
Commit_timestamp(c) == c.author.time_stamp

(***************************************************************************)
(* Blob, Tree and TreeNode (object.rs): serialization and parsing.  A node *)
(* is [file_type, permission, file_name, hash] with the 20 bytes of its    *)
(* hash.                                                                   *)
(***************************************************************************)
\* FileType::to_code_string
FileType_to_code_string(t) ==
    CASE t = "Directory" -> <<52, 48>>              \* "40"
      [] t = "File" -> <<49, 48, 48>>               \* "100"
      [] t = "SymbolicLink" -> <<49, 50, 48>>       \* "120"
      [] t = "Submodule" -> <<49, 54, 48>>          \* "160"

\* FileType::from_code_bytes
FileType_from_code_bytes(code) ==
    IF StartsWith(code, <<52, 48>>) THEN Some("Directory")
    ELSE IF StartsWith(code, <<49, 48, 48>>) THEN Some("File")
    ELSE IF StartsWith(code, <<49, 50, 48>>) THEN Some("SymbolicLink")
    ELSE IF StartsWith(code, <<49, 54, 48>>) THEN Some("Submodule")
    ELSE None

\* FilePermission::to_code_string
FilePermission_to_code_string(p) ==
    CASE p = "Other" -> <<48, 48, 48>>              \* "000"
      [] p = "Executable" -> <<55, 53, 53>>         \* "755"
      [] p = "UnExecutable" -> <<54, 52, 52>>       \* "644"

\* FilePermission::from_code_bytes
FilePermission_from_code_bytes(code) ==
    IF StartsWith(code, <<55, 53, 53>>) THEN Some("Executable")
    ELSE IF StartsWith(code, <<54, 52, 52>>) THEN Some("UnExecutable")
    ELSE IF StartsWith(code, <<48, 48, 48>>) THEN Some("Other")
    ELSE None

\* TreeNode::to_bytes: "<type><permission> <name>\0" and the 20 bytes of the hash
TreeNode_to_bytes(self) ==
    FileType_to_code_string(self.file_type)
    \o FilePermission_to_code_string(self.permission)
    \o <<Space>> \o self.file_name \o <<Nul>> \o self.hash

\* TreeNode::parse: the node at the start of bytes and the number of bytes it
\* took, or None (the Err of the code), or a panic when a slice is out of range
TreeNode_parse_name(bytes, ft, perm, offset) ==
    IF offset > Len(bytes) THEN Panic
    ELSE LET file_name == extract_until_null(SliceFrom(bytes, offset))
             at == offset + Len(file_name) + 1
         IN  IF at + HashLen > Len(bytes) THEN Panic
             ELSE Some([node |-> [file_type |-> ft, permission |-> perm,
                                  file_name |-> file_name,
                                  hash |-> Slice(bytes, at, at + HashLen)],
                        n |-> at + HashLen])

TreeNode_parse(bytes) ==
    AndThen(FileType_from_code_bytes(bytes), LAMBDA ft :
    AndThen(FilePermission_from_code_bytes(
                SliceFrom(bytes, Len(FileType_to_code_string(ft)))),
            LAMBDA perm :
        TreeNode_parse_name(bytes, ft, perm,
                            Len(FileType_to_code_string(ft))
                            + Len(FilePermission_to_code_string(perm)) + 1)))

\* the concatenation of the serialized nodes
RECURSIVE ConcatNodes(_)
ConcatNodes(nodes) ==
    IF nodes = <<>> THEN <<>> ELSE TreeNode_to_bytes(Head(nodes)) \o ConcatNodes(Tail(nodes))

\* Tree::as_bytes
Tree_as_bytes(nodes) ==
    LET body == ConcatNodes(nodes)
    IN  TreeWord \o <<Space>> \o Display(Len(body)) \o <<Nul>> \o body

\* the loop of Tree::from_bytes: nodes are parsed while offset < len
RECURSIVE Tree_from_loop(_, _, _, _)
Tree_from_loop(body, len, offset, nodes) ==
    IF offset >= len THEN Some(nodes)
    ELSE AndThen(TreeNode_parse(SliceFrom(body, offset)), LAMBDA r :
             IF r.n = 0 THEN None
             ELSE Tree_from_loop(body, len, offset + r.n, Append(nodes, r.node)))

\* the 0-based offset of the body of a blob or a tree: "blob " or "tree ",
\* the length text, the NUL
header_len(bytes) == 5 + Len(extract_until_null(SliceFrom(bytes, 5))) + 1

\* Tree::from_bytes.  After the nodes, the hash of the Tree is taken with
\* Hash::from(byte), which is None unless byte, the whole input, is 20 bytes
\* long.
Tree_from_bytes(byte) ==
    IF ~StartsWith(byte, TreeWord) THEN None
    ELSE IF Len(byte) < 5 THEN Panic
    ELSE AndThen(ParseUnsigned(extract_until_null(SliceFrom(byte, 5))), LAMBDA len :
         IF header_len(byte) > Len(byte) THEN Panic
         ELSE AndThen(Tree_from_loop(SliceFrom(byte, header_len(byte)), len, 0, <<>>),
                      LAMBDA nodes :
              AndThen(Hash_from(byte), LAMBDA hash :
                  Some([nodes |-> nodes, payload |-> byte, hash |-> Some(hash)]))))

\* Blob::new on byte-level data: the payload is "blob <len>\0" and the data
Blob_payload(data) == BlobWord \o <<Space>> \o Display(Len(data)) \o <<Nul>> \o data

\* Blob::from_bytes.  len is what the header says; data is whatever follows
\* the header.
Blob_from_bytes(bytes) ==
    IF ~StartsWith(bytes, BlobWord) THEN None
    ELSE IF Len(bytes) < 5 THEN Panic
    ELSE AndThen(ParseUnsigned(extract_until_null(SliceFrom(bytes, 5))), LAMBDA len :
         IF header_len(bytes) > Len(bytes) THEN Panic
         ELSE Some([len |-> len, data |-> SliceFrom(bytes, header_len(bytes)),
                    payload |-> bytes, hash |-> calc_sha1_bytes(bytes)]))

(***************************************************************************)
(* log (log.rs).  The object store of the log is a function from the hash  *)
(* of an object to the content of its file.                                *)
(***************************************************************************)
\* object.rs depress_zlib and extract_zlib: what was compressed is what is
\* extracted, and content that is not a zlib stream is an error
depress_zlib(bytes) == [zlib |-> bytes]
extract_zlib(content) ==
    IF "zlib" \in DOMAIN content THEN Some(content.zlib) ELSE None

\* Commit::from_depressed_bytes
Commit_from_depressed_bytes(content, profile) ==
    LET bytes == extract_zlib(content)
    IN  IF bytes.kind = "none" THEN None ELSE Commit_from_bytes(bytes.val, profile)

\* the end of dfs: self.commits.push((node, commit)) unless a parent failed
dfs_push(node, commit, walked) ==
    IF walked.kind # "ok" THEN walked
    ELSE [walked EXCEPT !.commits = Append(@, [hash |-> node, commit |-> commit])]

\* what dfs returns with an error or a panic
Failed(kind, cause) == [kind |-> kind, cause |-> cause]

\* LogParser::dfs from node with the visited set and the commits pushed so
\* far: a visited node returns at once; else the node is marked, its file
\* read and parsed, its parents walked in order, and (node, commit) pushed
RECURSIVE dfs(_, _, _, _), dfs_commit(_, _, _, _, _), dfs_parents(_, _, _, _, _),
          dfs_next(_, _, _, _, _)
dfs(store, node, st, profile) ==
    IF node \in st.visit THEN st
    ELSE IF node \notin DOMAIN store THEN Failed("err", "read")
    ELSE dfs_commit(store, node, [st EXCEPT !.visit = @ \cup {node}],
                    Commit_from_depressed_bytes(store[node], profile), profile)

dfs_commit(store, node, st, commit, profile) ==
    IF commit.kind = "panic" THEN Failed("panic", "parse")
    ELSE IF commit.kind = "none" THEN Failed("err", "parse commit error")
    ELSE dfs_push(node, commit.val, dfs_parents(store, commit.val.parents, 1, st, profile))

dfs_parents(store, parents, i, st, profile) ==
    IF i > Len(parents) THEN st
    ELSE dfs_next(store, parents, i, dfs(store, parents[i], st, profile), profile)

dfs_next(store, parents, i, r, profile) ==
    IF r.kind # "ok" THEN r ELSE dfs_parents(store, parents, i + 1, r, profile)

\* the order of two instants
DateTimeLeq(s, t) == s.secs < t.secs \/ (s.secs = t.secs /\ s.nanos <= t.nanos)

\* Vec::sort_by_key on the author's time stamp: a stable sort, so an element
\* goes after the elements before it that are not later
RECURSIVE sort_by_key(_)
sort_by_key(commits) ==
    IF commits = <<>> THEN <<>>
    ELSE LET n == Len(commits)
             last == commits[n]
             front == sort_by_key(SubSeq(commits, 1, n - 1))
             keep == {i \in 1..(n - 1) :
                         DateTimeLeq(Commit_timestamp(front[i].commit),
                                     Commit_timestamp(last.commit))}
             k == IF keep = {} THEN 0 ELSE CHOOSE i \in keep : \A j \in keep : j <= i
         IN  SubSeq(front, 1, k) \o <<last>> \o SubSeq(front, k + 1, n - 1)

\* Vec::reverse
reverse(s) == [i \in 1..Len(s) |-> s[Len(s) + 1 - i]]

\* Commit::log_entry: the block of one commit, as its fields
log_entry(c, hash) ==
    [commit |-> Hash_string_bytes(hash), author |-> c.author.name,
     address |-> c.author.address, date |-> c.author.time_stamp,
     message |-> c.commit_message]

\* str::replace("\n", "\n    ")
RECURSIVE replace_newlines(_)
replace_newlines(s) ==
    IF s = <<>> THEN <<>>
    ELSE IF Head(s) = NewLine
         THEN <<NewLine, Space, Space, Space, Space>> \o replace_newlines(Tail(s))
    ELSE <<Head(s)>> \o replace_newlines(Tail(s))

\* the local `message` of Commit::log_entry: format!("    {}", ...)
indented_message(c) == <<Space, Space, Space, Space>> \o replace_newlines(c.commit_message)

\* LogParser::parse after dfs: the blocks written to stdout, in order, or the
\* error
LogParser_output(walked) ==
    IF walked.kind # "ok" THEN walked
    ELSE [kind |-> "ok",
          entries |-> LET commits == reverse(sort_by_key(walked.commits))
                      IN  [i \in 1..Len(commits) |->
                              log_entry(commits[i].commit, commits[i].hash)]]

\* LogParser::parse
LogParser_parse(store, head_hash, profile) ==
    LogParser_output(dfs(store, head_hash, [kind |-> "ok", visit |-> {}, commits |-> <<>>],
                         profile))

(***************************************************************************)
(* Calls on drawn values.  calls starts with a drawn input; each action    *)
(* calls one function of object.rs, hash.rs or log.rs on the value         *)
(* returned last and appends what it returned.  A value is its type and    *)
(* Some(v), None or a panic.                                               *)
(***************************************************************************)
Call(fn, type, out, profile) == [fn |-> fn, type |-> type, out |-> out, profile |-> profile]
Input(type, v) == Call("input", type, Some(v), "any")

\* 20-byte hashes
HashOf(k) == [i \in 1..HashLen |-> (k * 37 + i * 11) % 256]
HashA == HashOf(1)
HashB == HashOf(2)
HashC == HashOf(3)
Hashes == {HashA, HashB, HashC, Zeros(HashLen), [i \in 1..HashLen |-> 255]}

NameA == <<97>>                       \* "a"
NameAB == <<97, 32, 98>>              \* "a b"
AddressAB == <<97, 64, 98, 46, 99>>   \* "a@b.c"

\* UTC offsets in seconds: +0000, +0900, +0530, -0500, -0330
Offsets == {0, 32400, 19800, -18000, -12600}

\* the sub-second part of Local::now(): none, or some
Nanos == {0, 1}

TestSeconds == 1633325813            \* the author's time of test_commit_from

UserOf(type, name, secs, nanos, offset) ==
    [committer_type |-> type, name |-> name, address |-> AddressAB,
     time_stamp |-> [secs |-> secs, nanos |-> nanos, offset |-> offset]]

UserInputs ==
    {UserOf(t, n, TestSeconds, ns, off) :
        t \in {"Author", "Committer"}, n \in {NameA, NameAB}, ns \in Nanos, off \in Offsets}

\* "", "m", "m\nn", "m\n"
CommitMessages == {<<>>, <<109>>, <<109, 10, 110>>, <<109, 10>>}

CommitInputs ==
    {Commit_of(HashA, ps, UserOf("Author", NameA, TestSeconds, ns, off),
               UserOf("Committer", NameAB, TestSeconds + 1, ns, off), msg) :
        ps \in {<<>>, <<HashB>>, <<HashB, HashC>>}, ns \in Nanos, off \in Offsets,
        msg \in CommitMessages}

\* texts handed to Hash::from_string: the hexadecimal strings of hashes, the
\* same with one char replaced by 'g', 'A', '/' or ' ', or one char shorter
\* or longer
OtherChars == {103, 65, 47, 32}
StringInputs ==
    {Hash_string_bytes(h) : h \in Hashes}
    \cup {[Hash_string_bytes(h) EXCEPT ![p] = c] :
             h \in {HashA, Zeros(HashLen)}, p \in {1, 2, 2 * HashLen}, c \in OtherChars}
    \cup {SubSeq(Hash_string_bytes(HashA), 1, 2 * HashLen - 1),
          Hash_string_bytes(HashA) \o <<Digit0>>}

\* tree nodes: a file and a directory
NodeFile == [file_type |-> "File", permission |-> "UnExecutable", file_name |-> NameA,
             hash |-> HashA]
NodeDir == [file_type |-> "Directory", permission |-> "Other", file_name |-> <<100>>,
            hash |-> HashB]
TreeInputs ==
    {<<>>} \cup {<<n>> : n \in {NodeFile, NodeDir}}
    \cup {<<n, m>> : n \in {NodeFile, NodeDir}, m \in {NodeFile, NodeDir}}

\* the input of test_commit_from and test_commit_to_bytes
TestCommitBytes ==
    <<99, 111, 109, 109, 105, 116, 32, 50, 50, 56, 0, 116, 114, 101, 101,
      32, 52, 49, 49, 98, 48, 55, 52, 99, 57, 48, 101, 54, 49, 49, 101, 49, 50, 98,
      57, 97, 102, 101, 101, 49, 57, 49, 49, 50, 52, 100, 98, 101, 52, 99, 55, 53,
      53, 51, 55, 48, 10, 112, 97, 114, 101, 110, 116, 32, 48, 98, 51, 50, 54, 51,
      52, 48, 100, 99, 101, 100, 98, 55, 97, 50, 55, 56, 50, 98, 101, 98, 56, 98,
      101, 100, 52, 100, 49, 98, 53, 56, 49, 50, 97, 100, 52, 50, 52, 51, 10, 97,
      117, 116, 104, 111, 114, 32, 115, 97, 105, 116, 111, 110, 48, 51, 32, 60, 115,
      97, 105, 116, 111, 110, 49, 53, 54, 48, 51, 64, 103, 109, 97, 105, 108, 46, 99,
      111, 109, 62, 32, 49, 54, 51, 51, 51, 50, 53, 56, 49, 51, 32, 43, 48, 57, 48,
      48, 10, 99, 111, 109, 109, 105, 116, 116, 101, 114, 32, 115, 97, 105, 116, 111,
      110, 32, 48, 51, 32, 60, 115, 97, 105, 116, 111, 110, 49, 53, 54, 48, 51, 64,
      103, 109, 97, 105, 108, 46, 99, 111, 109, 62, 32, 49, 54, 51, 51, 51, 51, 50,
      57, 54, 55, 32, 43, 48, 57, 48, 48, 10, 10, 109, 117, 108, 116, 105, 112, 108,
      101, 10, 108, 105, 110, 101, 115, 10>>

\* an object file's bytes: "<kind> <len>\0" and the body
ObjectBytes(kind, len, body) == kind \o <<Space>> \o Display(len) \o <<Nul>> \o body

\* the bytes after the header's NUL
BodyOf(bytes) == SliceFrom(bytes, Len(extract_until_null(bytes)) + 1)

\* the length written in the header, or None
HeaderLen(bytes) ==
    LET header == extract_until_null(bytes)
        fields == str_split(header, Space)
    IN  IF Len(fields) # 2 THEN None ELSE ParseUnsigned(fields[2])

\* the bodies of a blob, two trees and two commits
ObjectBodies ==
    {<<BlobWord, <<97, 98>> >>,
     <<TreeWord, ConcatNodes(<<NodeFile>>)>>,
     <<TreeWord, [i \in 1..13 |-> 0]>>,
     <<CommitWord, BodyOf(TestCommitBytes)>>,
     <<CommitWord, BodyOf(Commit_to_bytes(
                      Commit_of(HashA, <<>>, UserOf("Author", NameA, TestSeconds, 0, 0),
                                UserOf("Committer", NameA, TestSeconds, 0, 0), <<109>>)))>>}

\* object files whose header tells the length of one of the bodies, one more,
\* one less, or zero
ObjectInputs ==
    {ObjectBytes(o[1], len, o[2]) :
        o \in ObjectBodies, len \in {Len(o[2]) : o \in ObjectBodies}
                                     \cup {Len(o[2]) + 1 : o \in ObjectBodies}
                                     \cup {Len(o[2]) - 1 : o \in ObjectBodies} \cup {0}}

\* the commits of a store: K1 is the tip; the parents of each commit are
\* drawn, K2 and K3 may point back to K1, and each commit has one of two
\* author times
K1 == HashOf(11)
K2 == HashOf(12)
K3 == HashOf(13)
LogSeconds == {1, 2}

StoreOf(p1, p2, p3, t1, t2, t3, off) ==
    LET c(ps, t) == depress_zlib(Commit_to_bytes(
                        Commit_of(HashA, ps, UserOf("Author", NameA, t, 0, off),
                                  UserOf("Committer", NameA, t, 0, off), <<109>>)))
    IN  (K1 :> c(p1, t1)) @@ (K2 :> c(p2, t2)) @@ (K3 :> c(p3, t3))

\* the zones of the machine the commits were made on: +0000, +0900, -0500
LogOffsets == {0, 32400, -18000}

RepoInputs ==
    {[store |-> StoreOf(p1, p2, p3, t1, t2, t3, off), head |-> K1,
      parents |-> (K1 :> p1) @@ (K2 :> p2) @@ (K3 :> p3),
      times |-> (K1 :> t1) @@ (K2 :> t2) @@ (K3 :> t3), offset |-> off] :
        p1 \in {<<>>, <<K2>>, <<K3>>, <<K2, K3>>},
        p2 \in {<<>>, <<K3>>, <<K1>>},
        p3 \in {<<>>, <<K1>>},
        t1 \in LogSeconds, t2 \in LogSeconds, t3 \in LogSeconds,
        off \in LogOffsets}

\* the texts and object files handed to the parsers
BytesInputs == StringInputs \cup ObjectInputs \cup {TestCommitBytes}

Last == calls[Len(calls)]

\* the value returned last is a value of the type, and one more call fits
Ready(type) ==
    /\ calls # <<>>
    /\ Len(calls) <= MaxCalls
    /\ Last.type = type
    /\ Last.out.kind = "some"

Returns(fn, type, out, profile) ==
    /\ calls' = Append(calls, Call(fn, type, out, profile))
    /\ UNCHANGED <<ivars, rvars>>

CommitToBytes ==
    /\ Ready("commit")
    /\ Returns("Commit::to_bytes", "bytes", Some(Commit_to_bytes(Last.out.val)), "any")

CommitFromBytes ==
    /\ Ready("bytes")
    /\ \E profile \in Profiles :
          Returns("Commit::from_bytes", "commit", Commit_from_bytes(Last.out.val, profile),
                  profile)

UserToString ==
    /\ Ready("user")
    /\ Returns("CommitUser::to_string", "bytes", Some(CommitUser_to_string(Last.out.val)),
               "any")

UserFromBytes ==
    /\ Ready("bytes")
    /\ Returns("CommitUser::from_bytes", "user", CommitUser_from_bytes(Last.out.val), "any")

HashString ==
    /\ Ready("hash")
    /\ Returns("Hash::string", "bytes", Some(Hash_string_bytes(Last.out.val)), "any")

HashFromString ==
    /\ Ready("bytes")
    /\ \E profile \in Profiles :
          Returns("Hash::from_string", "hash", Hash_from_string_bytes(Last.out.val, profile),
                  profile)

TreeAsBytes ==
    /\ Ready("tree")
    /\ Returns("Tree::as_bytes", "bytes", Some(Tree_as_bytes(Last.out.val)), "any")

TreeFromBytes ==
    /\ Ready("bytes")
    /\ Returns("Tree::from_bytes", "tree",
               AndThen(Tree_from_bytes(Last.out.val), LAMBDA tree : Some(tree.nodes)), "any")

BlobFromBytes ==
    /\ Ready("bytes")
    /\ Returns("Blob::from_bytes", "blob", Blob_from_bytes(Last.out.val), "any")

CommitLogEntry ==
    /\ Ready("commit")
    /\ \E hash \in Hashes :
          Returns("Commit::log_entry", "entry", Some(log_entry(Last.out.val, hash)), "any")

\* the value of a finished log: the blocks, or None for an error
LogValue(r) ==
    IF r.kind = "ok" THEN Some(r.entries) ELSE IF r.kind = "panic" THEN Panic ELSE None

LogRun ==
    /\ Ready("repo")
    /\ \E profile \in Profiles :
          Returns("log", "log",
                  LogValue(LogParser_parse(Last.out.val.store, Last.out.val.head, profile)),
                  profile)

\* the paths of the indexes handed to the tree builder: "a/c/d", "c/b", and
\* "a" itself, staged while it was a file, before a directory took its place
PathACD == <<97, 47, 99, 47, 100>>
PathCB == <<99, 47, 98>>
TreePaths == {DirA, PathAT, PathAB, PathACD, PathCB}

\* the Index add left with the paths P staged
IndexInputs ==
    {[version |-> 2, entry_num |-> Cardinality(P),
      entries |-> [p \in P |-> StagedEntry(p, [sec |-> 0, nsec |-> 0])]] :
        P \in SUBSET TreePaths}

\* the tree list and the root hash CommitGenerator::exec holds before it writes
TreeListOf(gen) ==
    IF gen.kind # "ok" THEN None
    ELSE Some([tree_list |-> gen.tree_list, root_hash |-> gen.hash])

TreesOf(commit_tree) ==
    IF commit_tree.kind # "ok" THEN None
    ELSE TreeListOf(generate_tree_obj(commit_tree.tree, <<>>))

\* CommitGenerator::new and the first two lines of CommitGenerator::exec
CommitTreeObjects ==
    /\ Ready("index")
    /\ Returns("CommitTree::generate_tree_obj", "trees",
               TreesOf(CommitTree_from_index(Last.out.val)), "any")

InitObject ==
    /\ InitIndex
    /\ InitRepo
    /\ \/ \E u \in UserInputs : calls = <<Input("user", u)>>
       \/ \E c \in CommitInputs : calls = <<Input("commit", c)>>
       \/ \E s \in BytesInputs : calls = <<Input("bytes", s)>>
       \/ \E h \in Hashes : calls = <<Input("hash", h)>>
       \/ \E t \in TreeInputs : calls = <<Input("tree", t)>>
       \/ \E r \in RepoInputs : calls = <<Input("repo", r)>>
       \/ \E index \in IndexInputs : calls = <<Input("index", index)>>

NextObject ==
    \/ CommitToBytes \/ CommitFromBytes \/ UserToString \/ UserFromBytes
    \/ HashString \/ HashFromString \/ TreeAsBytes \/ TreeFromBytes \/ BlobFromBytes
    \/ LogRun \/ CommitLogEntry \/ CommitTreeObjects

\* the object formats, the hashes and log
SpecObject == InitObject /\ [][NextObject]_vars

(***************************************************************************)
(* log and head on the repository (log.rs, head.rs).  The object file of a *)
(* commit holds Commit::to_bytes of it, and log reads it back with         *)
(* Commit::from_depressed_bytes.  What comes back depends on the number of *)
(* parent lines, the time and the zone of the author and committer lines   *)
(* and the message; the hex of any hash parses back to the hash, so the    *)
(* tree and the parents stand for themselves.                              *)
(***************************************************************************)
MessageFirst == <<102, 105, 114, 115, 116>>    \* "first"

\* the object file commit wrote for a commit with n parents made at secs in
\* the zone off
CommitFile(n, secs, off) ==
    depress_zlib(Commit_to_bytes(
        Commit_of(HashA, IF n = 0 THEN <<>> ELSE <<HashB>>,
                  UserOf("Author", NameA, secs, 0, off),
                  UserOf("Committer", NameA, secs, 0, off), MessageFirst)))

\* Commit::from_depressed_bytes of that file
CommitReadBack(n, secs, off) ==
    Commit_from_depressed_bytes(CommitFile(n, secs, off), "release")

\* LogParser::dfs on the object store: fs::read fails when the file is
\* missing, and a file with no content, or of another object, is no commit;
\* repo_dfs_commit is dfs from the point where the file is parsed
RECURSIVE repo_dfs(_, _), repo_dfs_commit(_, _, _), repo_dfs_parents(_, _, _)
repo_dfs(node, walked) ==
    IF walked.kind # "ok" \/ node \in walked.visit THEN walked
    ELSE IF ~ObjExists(node) THEN [kind |-> "err", cause |-> "read object"]
    ELSE IF objects[node] # "full" \/ node.sha1.obj_type # "commit"
    THEN [kind |-> "err", cause |-> "parse commit error"]
    ELSE repo_dfs_commit(node,
                         CommitReadBack(Len(node.sha1.parents), node.sha1.author.time_stamp,
                                        node.sha1.author.offset),
                         [walked EXCEPT !.visit = @ \cup {node}])

repo_dfs_commit(node, back, walked) ==
    IF back.kind # "some" THEN [kind |-> "err", cause |-> "parse commit error"]
    ELSE dfs_push(node, back.val, repo_dfs_parents(node.sha1.parents, 1, walked))

repo_dfs_parents(parents, i, walked) ==
    IF i > Len(parents) THEN walked
    ELSE repo_dfs_parents(parents, i + 1, repo_dfs(parents[i], walked))

\* the blocks of the commits, latest author time first
repo_log_entries(commits) ==
    [i \in 1..Len(commits) |->
        [commit |-> Hash_string(commits[i].hash),
         date |-> commits[i].commit.author.time_stamp,
         message |-> commits[i].commit.commit_message]]

\* LogParser::parse after dfs
repo_log_output(walked) ==
    IF walked.kind # "ok" THEN walked
    ELSE [kind |-> "ok",
          entries |-> repo_log_entries(reverse(sort_by_key(walked.commits)))]

\* LogParser::parse on the object store
repo_log(head_hash) ==
    repo_log_output(repo_dfs(head_hash, [kind |-> "ok", visit |-> {}, commits |-> <<>>]))

\* log::run from the point where parse has returned (lines 22-24)
LogParsed(parsed) ==
    IF parsed.kind # "ok" THEN Return(Err("log", parsed.cause))
    ELSE /\ pc' = "log_write"
         /\ mem' = [kind |-> "log", entries |-> parsed.entries]
         /\ UNCHANGED result

\* log::run up to the point where the text is in memory (lines 13-22).  A
\* detached HEAD holds 20 raw bytes, which name no object of the store.
LogBegin ==
    /\ pc = "idle"
    /\ ops < MaxOps
    /\ ops' = ops + 1
    /\ wlog' = <<>>
    /\ tip_before' = branch_tip
    /\ index_before' = index_file
    /\ UNCHANGED <<disk, files, clock, faults, edits, ivars, ovars>>
    /\ IF ~git_dir THEN Return(Err("log", "no .git/ found"))
       ELSE LET head == Head_new IN
       IF head.kind # "ok" THEN Return(Err("log", head.cause))
       ELSE IF head.head.hash.kind = "none" THEN Return(Err("log", "no commits"))
       ELSE IF head.head.is_dangling THEN Return(Err("log", "read object"))
       ELSE LogParsed(repo_log(head.head.hash.val))

\* io::stdout().write_all (line 24)
LogWrite ==
    /\ pc = "log_write"
    /\ Return(Ok("log"))
    /\ UNCHANGED <<disk, files, clock, wlog, tip_before, index_before, faults, edits,
                   ivars, ovars, ops>>

\* head::run
HeadRun ==
    /\ pc = "idle"
    /\ ops < MaxOps
    /\ ops' = ops + 1
    /\ wlog' = <<>>
    /\ tip_before' = branch_tip
    /\ index_before' = index_file
    /\ UNCHANGED <<disk, files, clock, faults, edits, ivars, ovars>>
    /\ IF ~git_dir THEN Return(Err("head", "no .git/ found"))
       ELSE IF Head_new.kind # "ok" THEN Return(Err("head", Head_new.cause))
       ELSE Return(Ok("head"))

Next ==
    \/ InitRun \/ Exit
    \/ AddBegin \/ AddIndexCreate \/ AddIndexWrite \/ AddBlobCreate \/ AddBlobWrite
    \/ CommitBegin \/ CommitTreeCreate \/ CommitTreeWrite \/ CommitCompose
    \/ CommitObjCreate \/ CommitObjWrite \/ CommitTipCreate \/ CommitTipWrite
    \/ LogBegin \/ LogWrite \/ HeadRun
    \/ WriteFile \/ RemoveFile \/ Chmod \/ DetachHead \/ Tick

\* the repository: init, add, commit, log and head invocations, the user's
\* edits, the clock
Spec == Init /\ [][Next]_vars

(***************************************************************************)
(* Properties of the index (specification SpecIndex)                       *)
(***************************************************************************)
\* the file names of the entries of an index file, in the order they lie in the file
RECURSIVE EntryNamesInFile(_, _)
EntryNamesInFile(bytes, offset) ==
    IF offset >= Len(bytes) THEN <<>>
    ELSE LET out == IndexEntry_from(SliceFrom(bytes, offset))
         IN  IF out.kind # "some" THEN <<>>
             ELSE <<out.entry.file_name>> \o EntryNamesInFile(bytes, offset + out.len)

\* the entry_count field of the header of an index file
HeaderEntryCount(bytes) == bytes_to_u32(Slice(bytes, 8, 12)).val

\* C8: every Index, made by Index::new or parsed by Index::from and then
\* mutated by any sequence of add_entry and delete_entry calls, has entry_num
\* equal to the number of its entries, and every serialized index has a
\* header entry_count equal to the number of entries that follow the header.
C8_EntryCountEqualsEntries ==
    /\ idx.entry_num = Cardinality(DOMAIN idx.entries)
    /\ ibytes # <<>> => HeaderEntryCount(ibytes) = Len(EntryNamesInFile(ibytes, 12))

\* C9: Index::from applied to the bytes of I.to_bytes() returns an Index
\* equal to I, and for every entry the parser consumes exactly the bytes the
\* serializer emitted, of which 1..8 are padding.
C9_IndexRoundTrip ==
    (iparsed # Unset /\ iinput = ibytes) =>
        /\ iparsed = [kind |-> "some", index |-> isnap]
        /\ \A p \in DOMAIN isnap.entries :
              LET b == IndexEntry_to_bytes(isnap.entries[p])
                  r == IndexEntry_from(b)
              IN  /\ r.kind = "some"
                  /\ r.entry = isnap.entries[p]
                  /\ r.len = Len(b)
                  /\ Len(b) - (EntryFixedLen + Len(p)) \in 1..8

\* a two-entry Index, one entry with eight bytes of padding, was serialized and parsed back
C9_Witness ==
    /\ iparsed # Unset
    /\ iinput = ibytes
    /\ Cardinality(DOMAIN isnap.entries) = 2
    /\ PathCD \in DOMAIN isnap.entries
    /\ Len(IndexEntry_to_bytes(isnap.entries[PathCD])) = EntryFixedLen + 2 + 8
    /\ iparsed.kind = "some"

\* C10: to_bytes writes the entries in ascending byte-lexicographic order of
\* their path strings.
C10_ByteLexOrder ==
    LET names == EntryNamesInFile(ibytes, 12)
    IN  \A i, j \in 1..Len(names) : i < j => BytesLess(names[i], names[j])


(***************************************************************************)
(* Properties of commit and add (specification Spec)                       *)
(***************************************************************************)
\* event a occurs somewhere before event b in the write log
Before(a, b) == \E i, j \in 1..Len(wlog) : i < j /\ wlog[i] = a /\ wlog[j] = b

Written(a) == \E i \in 1..Len(wlog) : wlog[i] = a

\* C1: in a commit run the tree objects are written first, then the commit
\* object, then the branch file: no tree write follows the commit object's
\* write, no object write follows the branch file's write, every tree of the
\* tree list is on disk when the commit object is written, and the commit
\* object is on disk when the branch file is overwritten.
C1_CommitWriteOrder ==
    /\ ~Before("commit", "tree")
    /\ ~Before("tip", "tree")
    /\ ~Before("tip", "commit")
    /\ (mem.kind = "commit" /\ (Written("commit") \/ Written("tip"))) =>
          \A i \in 1..Len(mem.tree_list) : ObjExists(mem.tree_list[i].hash)
    /\ (mem.kind = "commit" /\ Written("tip")) =>
          /\ mem.commit.kind = "some"
          /\ ObjExists(mem.commit.val.hash)

\* a commit run wrote a tree, then the commit object, and has overwritten the branch file
C1_Witness ==
    /\ wlog = <<"tree", "tree", "commit", "tip">>
    /\ pc = "commit_tip_write"

\* C2: when commit returns an error other than a failure of the write of the
\* branch file itself, the branch file is as it was when commit started.
C2_ErrorKeepsTip ==
    (pc = "returned" /\ result.op = "commit" /\ result.status = "err"
        /\ result.cause # "write tip")
    => branch_tip = tip_before

\* a commit on a branch with a tip failed while it wrote the commit object, whose file remains
C2_Witness ==
    /\ pc = "returned"
    /\ result = Err("commit", "write commit")
    /\ tip_before.kind = "hex"
    /\ branch_tip = tip_before
    /\ \E h \in DOMAIN objects : objects[h] = "empty"

\* C3: the commit composed on a branch whose file holds the hash of commit P
\* has parents = <<P>>, and on a branch with no file it has no parents; when
\* commit succeeds on a branch whose tip was P, the branch file holds the new
\* commit, which is not P and whose only parent is P.
C3_ParentLinkage ==
    /\ (mem.kind = "commit" /\ mem.commit.kind = "some") =>
          /\ tip_before.kind = "hex" =>
                mem.commit.val.payload.parents = <<tip_before.hash>>
          /\ tip_before.kind = "absent" =>
                mem.commit.val.payload.parents = <<>>
    /\ (pc = "returned" /\ result = Ok("commit")) =>
          /\ branch_tip.kind = "hex"
          /\ tip_before.kind = "hex" =>
                /\ branch_tip.hash # tip_before.hash
                /\ branch_tip.hash.sha1.parents = <<tip_before.hash>>
          /\ tip_before.kind = "absent" => branch_tip.hash.sha1.parents = <<>>

\* the second of two successful commits on the branch has returned
C3_Witness ==
    /\ pc = "returned"
    /\ result = Ok("commit")
    /\ tip_before.kind = "hex"
    /\ tip_before.hash.sha1.parents = <<>>
    /\ branch_tip.kind = "hex"

\* C4: in an add run every blob object is written before .git/index is rewritten.
C4_BlobsBeforeIndex == ~Before("index", "blob")

\* C5: between invocations, every blob hash recorded in .git/index names an
\* object file that exists in .git/objects.
C5_IndexBlobsExist ==
    (pc \in {"idle", "returned"} /\ index_file.kind = "data") =>
        \A i \in 1..Len(index_file.ents) : ObjExists(index_file.ents[i].hash)

\* C6: an object file that holds its complete content is never changed or removed.
C6_ObjectsImmutable ==
    [][\A h \in DOMAIN objects :
          objects[h] = "full" => (h \in DOMAIN objects' /\ objects'[h] = "full")]_vars

\* C7: an object file that exists holds its complete content, in every state
\* a reader can observe.
C7_NoPartialObject == \A h \in DOMAIN objects : objects[h] = "full"

(***************************************************************************)
(* Properties of the diff walker and of add (specification SpecAdd)        *)
(***************************************************************************)
\* the keys of the Index the running add read from .git/index
KeysRead ==
    LET old == Index_from_file
    IN  IF old.kind = "some" THEN DOMAIN old.index.entries ELSE {}

\* the regular files on disk under the search root of the running add
FoundUnder(root) == {p \in DOMAIN files : Path_starts_with(p, root)}

\* the diff walker of the running add has returned and nothing is written yet
Walked == pc = "add_index_create" /\ mem.kind = "add"

FileEntry(f, p) ==
    IF f.kind = "data" /\ \E i \in 1..Len(f.ents) : f.ents[i].file_name = p
    THEN Some(f.ents[CHOOSE i \in 1..Len(f.ents) : f.ents[i].file_name = p])
    ELSE None

Made(i, fn) == i >= 2 /\ i <= Len(calls) /\ calls[i].fn = fn

\* C14: for any well-formed Commit C, with zero parents or with one or more
\* parents and with any message, Commit::from_bytes(C.to_bytes()) returns a
\* commit equal to C in tree, parents, author, committer and message.
C14_CommitRoundTrip ==
    \A i \in 1..Len(calls) :
        (/\ calls[i].type = "commit" /\ calls[i].out.kind = "some"
         /\ Made(i + 1, "Commit::to_bytes")
         /\ Made(i + 2, "Commit::from_bytes"))
        => /\ calls[i + 2].out.kind = "some"
           /\ CommitEq(calls[i + 2].out.val, calls[i].out.val)

\* the serialized commit has a line "parent <hex>" before its first empty line
HasParentLine(bytes) ==
    LET lines == str_split(BodyOf(bytes), NewLine)
    IN  \E k \in 1..Len(lines) :
            /\ StartsWith(lines[k], ParentWord \o <<Space>>)
            /\ \A j \in 1..k : lines[j] # <<>>

\* the header of the object tells the number of bytes after its NUL
HeaderMatches(bytes) == HeaderLen(bytes) = Some(Len(BodyOf(bytes)))

\* C15: for any well-formed serialized commit b with at least one parent
\* line, Commit::from_bytes(b) followed by to_bytes returns exactly b: the
\* same length in the header, the same message, no byte added or dropped.
C15_SerializedCommitRoundTrip ==
    \A i \in 1..Len(calls) :
        (/\ calls[i].type = "bytes" /\ calls[i].out.kind = "some"
         /\ HeaderMatches(calls[i].out.val)
         /\ HasParentLine(calls[i].out.val)
         /\ Made(i + 1, "Commit::from_bytes") /\ calls[i + 1].out.kind = "some"
         /\ Made(i + 2, "Commit::to_bytes"))
        => calls[i + 2].out.val = calls[i].out.val

\* C16: Tree::from_bytes on the canonical serialization of any tree, "tree
\* <N>\0" followed by the serialized nodes as Tree::as_bytes writes it,
\* succeeds and returns the serialized nodes in the same order.
C16_TreeParsesCanonical ==
    \A i \in 1..Len(calls) :
        (/\ calls[i].type = "tree" /\ calls[i].out.kind = "some"
         /\ Made(i + 1, "Tree::as_bytes")
         /\ Made(i + 2, "Tree::from_bytes"))
        => /\ calls[i + 2].out.kind = "some"
           /\ calls[i + 2].out.val = calls[i].out.val

\* C17: an object whose header length differs from the number of bytes
\* after the header's NUL is a parse error: Blob::from_bytes, Tree::from_bytes
\* and Commit::from_bytes never return an object for it.
C17_LengthMismatchRejected ==
    \A i \in 1..Len(calls) :
        (/\ calls[i].type = "bytes" /\ calls[i].out.kind = "some"
         /\ ~HeaderMatches(calls[i].out.val)
         /\ \/ Made(i + 1, "Blob::from_bytes")
            \/ Made(i + 1, "Tree::from_bytes")
            \/ Made(i + 1, "Commit::from_bytes"))
        => calls[i + 1].out.kind # "some"

\* every char of the text is one of 0-9 and a-f
IsLowerHex(string) ==
    \A k \in 1..Len(string) :
        IsDigit(string[k]) \/ (string[k] >= LowerA /\ string[k] <= LowerF)

\* C18: Hash::from_string returns a Hash only for a string of exactly 40
\* lowercase hexadecimal chars; for a 40-char string with a char outside
\* 0-9a-f it returns no Hash and does not abort; and for every Hash H,
\* from_string(H.string()) is H.
C18_HashFromString ==
    \A i \in 1..Len(calls) :
        Made(i + 1, "Hash::from_string") =>
            /\ calls[i + 1].out.kind = "some"
                  => Len(calls[i].out.val) = 2 * HashLen /\ IsLowerHex(calls[i].out.val)
            /\ (Len(calls[i].out.val) = 2 * HashLen /\ ~IsLowerHex(calls[i].out.val))
                  => calls[i + 1].out.kind = "none"
            /\ Made(i, "Hash::string") => calls[i + 1].out = calls[i - 1].out

\* n < 100 as two decimal digits
TwoDigits(n) == <<Digit0 + (n \div 10), Digit0 + (n % 10)>>

\* the zone ±HHMM of an offset in seconds: the sign, two hour digits, two
\* minute digits
SignedZone(offset) ==
    LET abs == IF offset < 0 THEN -offset ELSE offset
    IN  <<IF offset < 0 THEN Minus ELSE Plus>>
        \o TwoDigits(abs \div 3600) \o TwoDigits((abs % 3600) \div 60)

\* C19: for every CommitUser, whatever its UTC offset (positive, zero or
\* negative, with or without minutes), to_string gives
\* "<role> <name> <<email>> <unix-seconds> <±HHMM>", the zone being a sign,
\* two hour digits and two minute digits, and CommitUser::from_bytes of that
\* line returns a CommitUser equal to the original.
C19_UserLineRoundTrip ==
    \A i \in 1..Len(calls) :
        (calls[i].type = "user" /\ calls[i].out.kind = "some"
         /\ Made(i + 1, "CommitUser::to_string"))
        => LET u == calls[i].out.val
           IN  /\ calls[i + 1].out.val =
                     CommitterType_to_code_string(u.committer_type) \o <<Space>> \o u.name
                     \o <<Space, Lt>> \o u.address \o <<Gt, Space>>
                     \o Display(u.time_stamp.secs) \o <<Space>>
                     \o SignedZone(u.time_stamp.offset)
               /\ Made(i + 2, "CommitUser::from_bytes")
                     => /\ calls[i + 2].out.kind = "some"
                        /\ CommitUserEq(calls[i + 2].out.val, u)

\* the commits reachable from the commits of S along the parents of the graph
RECURSIVE Reach(_, _)
Reach(parents, S) ==
    LET more == S \cup UNION {{parents[h][k] : k \in 1..Len(parents[h])} : h \in S}
    IN  IF more = S THEN S ELSE Reach(parents, more)

\* C20: for any commit graph reachable from HEAD's tip (linear, with merge
\* commits reachable along several paths, or containing a cycle) log
\* terminates, emits each reachable commit exactly once, and emits the
\* commits in descending order of author time stamp.
C20_LogEmitsReachableOnce ==
    \A i \in 1..Len(calls) :
        (calls[i].type = "repo" /\ Made(i + 1, "log"))
        => LET repo == calls[i].out.val
               reached == Reach(repo.parents, {repo.head})
               out == calls[i + 1].out
           IN  /\ out.kind = "some"
               /\ Len(out.val) = Cardinality(reached)
               /\ \A h \in reached :
                     \E k \in 1..Len(out.val) :
                         /\ out.val[k].commit = Hash_string_bytes(h)
                         /\ out.val[k].date.secs = repo.times[h]
               /\ \A k \in 1..(Len(out.val) - 1) :
                     DateTimeLeq(out.val[k + 1].date, out.val[k].date)

\* C21: in the block log_entry returns for a commit, the message is printed
\* with a 4-space indent on its first line and with every newline inside the
\* message followed by a 4-space indent.
C21_MessageIndented ==
    \A i \in 1..Len(calls) :
        (calls[i].type = "commit" /\ calls[i].out.kind = "some"
            /\ Made(i + 1, "Commit::log_entry"))
        => calls[i + 1].out.val.message = indented_message(calls[i].out.val)

(***************************************************************************)
(* Properties of the repository across invocations (specification Spec)   *)
(***************************************************************************)
\* C22: no step of an add, commit, log or head invocation changes the
\* content of .git/HEAD, and an init on a repository whose .git/HEAD exists
\* leaves it as it is: HEAD is written only by an init that finds no HEAD.
C22_HeadUntouched ==
    [][(pc # "idle" \/ ops' # ops)
          => \/ head_file' = head_file
             \/ (head_file = Absent /\ result'.op = "init")]_vars

\* a second init has returned on a repository with a commit on its branch,
\* and HEAD holds what the first init wrote
C22_Witness ==
    /\ pc = "returned"
    /\ result = Ok("init")
    /\ branch_tip.kind = "hex"
    /\ head_file = [kind |-> "data", data |-> InitialHead]

\* the run so far is init, the creation of a.t, an add that staged it and a
\* commit, in n invocations that all completed
FirstCommitMade(n) ==
    /\ ops = n
    /\ edits = 1
    /\ faults = 0
    /\ DOMAIN files = {PathAT}
    /\ FileEntry(index_file, PathAT) # None
    /\ branch_tip.kind = "hex"

\* the object files that hold an object of the type
ObjectsOfType(type) == {h \in DOMAIN objects : h.sha1.obj_type = type}

\* C23: starting from an empty directory, after init, the creation of one
\* file, add of it and commit -m first: .git/HEAD holds
\* "ref: refs/heads/master\n", the object store holds exactly three objects
\* (one blob, one tree, one commit), the branch file holds the hex hash of
\* that commit and nothing else, and log emits exactly one commit entry.
C23_FirstCommitScenario ==
    /\ (FirstCommitMade(3) /\ pc = "returned" /\ result = Ok("commit")) =>
          /\ head_file = [kind |-> "data", data |-> InitialHead]
          /\ Cardinality(DOMAIN objects) = 3
          /\ Cardinality(ObjectsOfType("blob")) = 1
          /\ Cardinality(ObjectsOfType("tree")) = 1
          /\ Cardinality(ObjectsOfType("commit")) = 1
          /\ \A h \in DOMAIN objects : objects[h] = "full"
          /\ \A h \in ObjectsOfType("commit") : branch_tip = Hash_string(h)
    /\ (FirstCommitMade(4) /\ result.op = "log") => result = Ok("log")
    /\ (FirstCommitMade(4) /\ pc = "log_write") =>
          /\ Len(mem.entries) = 1
          /\ mem.entries[1].commit = branch_tip
          /\ mem.entries[1].message = MessageFirst

\* C24: every failure of init, add, commit, log or head, and of the index
\* and object parsers on malformed or truncated input, is returned as an
\* error value: no invocation and no parser call ends in a panic.
C24_NoPanic ==
    /\ result.status # "panic"
    /\ iparsed.kind # "panic"
    /\ \A i \in 1..Len(calls) : calls[i].out.kind # "panic"

\* the mode has permission bits other than 0o755 and 0o644, or file-type
\* bits other than 0b1000, 0b1010 and 0b1110
BadMode(mode) ==
    \/ mode % 512 \notin {493, 420}
    \/ (mode \div 4096) % 16 \notin {8, 10, 14}

\* modes of regular files, links, submodules, a directory and a device:
\* 0o100644, 0o100755, 0o100600, 0o100664, 0o120644, 0o120777, 0o160644,
\* 0o040755, 0o060644
EntryModes == {33188, 33261, 33152, 33204, 41380, 41471, 57764, 16877, 24996}

\* the Index a commit started now would read holds an entry with a bad mode
IndexHasBadMode ==
    /\ Index_from_file.kind = "some"
    /\ \E p \in DOMAIN Index_from_file.index.entries :
          BadMode(Index_from_file.index.entries[p].mode)

\* C25: when an entry of the index has permission bits other than 0o755 or
\* 0o644, or file-type bits other than 0b1000, 0b1010 or 0b1110, no tree
\* node is made of it, and a commit started on that index returns an error
\* at once, writes no tree object and no commit object, and leaves the
\* branch file as it is.
C25_BadModeRejected ==
    [][/\ \A mode \in EntryModes :
             BadMode(mode) <=>
                TreeNode_from_index_entry(
                    [StagedEntry(PathAT, [sec |-> 0, nsec |-> 0]) EXCEPT !.mode = mode]) = None
       /\ (pc = "idle" /\ (result'.op = "commit" \/ pc' = "commit_tree") /\ IndexHasBadMode)
             => /\ pc' = "returned"
                /\ result'.status = "err"
                /\ objects' = objects
                /\ branch_tip' = branch_tip
      ]_vars

\* a commit on an index whose entry has mode 0o100600 has returned the
\* error of the tree builder, with no tree in the object store
C25_Witness ==
    /\ pc = "returned"
    /\ result = Err("commit", "create node failed")
    /\ IndexHasBadMode
    /\ ObjectsOfType("tree") = {}

(***************************************************************************)
(* Properties of the tree builder (specification SpecObject)               *)
(***************************************************************************)
\* the directories of an index, as component lists: every proper prefix of a
\* key, and the root
DirPrefixes(index) ==
    {<<>>} \cup UNION {{SubSeq(Components(k), 1, n) : n \in 0..(Len(Components(k)) - 1)} :
                          k \in DOMAIN index.entries}

IsBelow(cs, d) == Len(cs) > Len(d) /\ SubSeq(cs, 1, Len(d)) = d

Ascending(S) ==
    CHOOSE s \in [1..Cardinality(S) -> S] :
        \A i \in DOMAIN s, j \in DOMAIN s : i < j => s[i] < s[j]

\* the positions, in the index's iteration order, at which a name directly
\* below directory d shows up for the first time
FirstSeen(index, d) ==
    LET es == EntriesInOrder(index)
        cs(i) == Components(es[i].file_name)
    IN  Ascending({i \in DOMAIN es :
                      /\ IsBelow(cs(i), d)
                      /\ \A j \in 1..(i - 1) :
                            ~(IsBelow(cs(j), d) /\ cs(j)[Len(d) + 1] = cs(i)[Len(d) + 1])})

\* the Tree of directory d: its files and its sub-directories in the index's
\* iteration order, a sub-directory by the hash of its own Tree
RECURSIVE ExpectedTree(_, _)
ExpectedTree(index, d) ==
    LET es == EntriesInOrder(index)
        at == FirstSeen(index, d)
        node(i) ==
            LET cs == Components(es[i].file_name)
            IN  IF Len(cs) = Len(d) + 1 THEN TreeNode_from_index_entry(es[i]).val
                ELSE [file_type |-> "Directory", permission |-> "Other",
                      file_name |-> cs[Len(d) + 1],
                      hash |-> ExpectedTree(index, Append(d, cs[Len(d) + 1])).hash]
    IN  Tree_of([k \in DOMAIN at |-> node(at[k])])

TreesMatch(index, out) ==
    /\ out.kind = "some"
    /\ LET list == out.val.tree_list
           D == DirPrefixes(index)
       IN  /\ Len(list) = Cardinality(D)
           /\ list[Len(list)].hash = out.val.root_hash
           /\ \E pos \in [D -> 1..Len(list)] :
                 /\ \A d \in D, e \in D : pos[d] = pos[e] => d = e
                 /\ pos[<<>>] = Len(list)
                 /\ \A d \in D : list[pos[d]] = ExpectedTree(index, d)
                 /\ \A d \in D \ {<<>>} : pos[d] < pos[SubSeq(d, 1, Len(d) - 1)]

\* C26: for any index the tree builder returns one Tree per directory of the
\* index paths and one for the root, each listing its nodes in the index's
\* iteration order, every sub-tree before the Tree that refers to it, the root
\* Tree last and under the returned root hash; building again gives the same
C26_TreePerDirectory ==
    \A i \in 2..Len(calls) :
        calls[i].fn = "CommitTree::generate_tree_obj" =>
            /\ TreesMatch(calls[i - 1].out.val, calls[i].out)
            /\ calls[i].out = TreesOf(CommitTree_from_index(calls[i - 1].out.val))

\* the object file of Tree t exists, and so do those of its sub-trees and blobs
RECURSIVE TreePresent(_)
TreePresent(t) ==
    /\ ObjExists(t)
    /\ \A i \in 1..Len(t.sha1.nodes) :
          IF t.sha1.nodes[i].file_type = "Directory"
          THEN TreePresent(t.sha1.nodes[i].hash)
          ELSE ObjExists(t.sha1.nodes[i].hash)

\* C27: between invocations of init, add and commit, completed or failed, a
\* branch file that exists names a commit whose object file exists, together
\* with those of its root tree, of every sub-tree and of every blob.
C27_TipClosed ==
    (pc \in {"idle", "returned"} /\ branch_tip # Absent) =>
        /\ branch_tip.kind = "hex"
        /\ ObjExists(branch_tip.hash)
        /\ branch_tip.hash.sha1.obj_type = "commit"
        /\ TreePresent(branch_tip.hash.sha1.tree)

(***************************************************************************)
(* Properties of add on trees with symbolic links and on paths below .git  *)
(* (specification SpecWalk)                                                *)
(***************************************************************************)
\* the walk of the running add left only regular files under its search root
\* in new and modified
WalkedRegular ==
    \A p \in mem.new \cup mem.modified :
        /\ p \notin LinkPaths
        /\ Path_starts_with(p, mem.search_root)

\* C28: in the walk of add a symbolic link, to a file or to a directory, counts
\* as a non-file: it is not added to new or modified, it is not followed, and
\* it never makes add fail.
C28_LinksSkipped ==
    [][(pc = "idle" /\ pc' # "idle" /\ DOMAIN files \cap LinkPaths # {}) =>
          /\ result'.cause # "prefix not found"
          /\ pc' = "add_index_create" => WalkedRegular']_vars

\* C29: whatever path inside the project add is given, the project root, .git
\* or a path below .git included, no key of the index file has .git as one
\* of its components.
C29_NoGitKeys ==
    index_file.kind = "data" =>
        \A i \in 1..Len(index_file.ents) :
            \A k \in 1..Len(Components(index_file.ents[i].file_name)) :
                Components(index_file.ents[i].file_name)[k] # DotGit

\* the entries of an index file, by path
EntriesOfFile(f) ==
    IF f.kind = "data" THEN {f.ents[i] : i \in 1..Len(f.ents)} ELSE {}

\* C30: when add with search root R has written the index, every entry of the
\* old index whose path is not under R, component by component, is in the
\* written index as it was, and every entry of the written index whose path
\* is not under R was in the old index: a sibling such as a.t, which has
\* R = a as a prefix of its text only, is neither added, replaced nor removed.
C30_OutsideRootUnchanged ==
    [][(pc = "add_index_write" /\ (pc' = "add_blob_create" \/ result' = Ok("add"))) =>
          /\ \A e \in EntriesOfFile(index_before) :
                ~Path_starts_with(e.file_name, mem.search_root) =>
                    e \in EntriesOfFile(index_file')
          /\ \A e \in EntriesOfFile(index_file') :
                ~Path_starts_with(e.file_name, mem.search_root) =>
                    e \in EntriesOfFile(index_before)
      ]_vars

====
